---- MODULE Spec2Model ----
(***************************************************************************)
(* Model of the e-commerce-rs services: the fixed-window rate limiter of   *)
(* common/src/ratelimit.rs and the order workflow of order/src/order.rs    *)
(* together with the catalog handlers of product/src/product.rs it calls.  *)
(***************************************************************************)
EXTENDS Integers, Naturals, Sequences, FiniteSets, TLC

\* ------------------------------------------------------------------------
\* Bounds of the model
\* ------------------------------------------------------------------------
MaxLimit == 2
MaxWindow == 2
MaxTime == 3
MaxOps == 3
MaxConcOps == 2
MaxQty == 2
MaxCatalogOps == 1
InitStock == 2

VARIABLES
    max_requests,   \* RateLimitConfig.max_requests
    window,         \* RateLimitConfig.window
    clients,        \* RateLimitConfig.clients : client_id -> ClientState
    clock,          \* the monotonic clock read by Instant::now()
    calls,          \* in-flight RateLimitService::call invocations
    winAllowed,     \* history: requests allowed per key since its window_start was set
    winDenied       \* history: 1 when a request was denied since window_start was set

rlvars == <<max_requests, window, clients, clock, calls, winAllowed, winDenied>>

VARIABLES
    products,       \* table products: id -> [price, stock_quantity] (committed rows)
    orders,         \* table orders: id -> row (committed rows)
    order_items,    \* table order_items: order id -> rows in insertion order (committed)
    row_lock,       \* row locks held by open transactions: product id -> owner (0 = free)
    order_lock,     \* row locks on orders rows: order id -> owner (0 = free)
    tx,             \* the open transaction of each handler: its uncommitted writes
    proc,           \* the in-flight handler of each connection and its locals
    ops,            \* number of calls started
    conns,          \* number of connections the server handles concurrently
    restored,       \* history: per order and product, quantity added back by cancellations
    catalog         \* the in-flight add_product or update_inventory call of the product service

ordervars == <<products, orders, order_items, row_lock, order_lock, tx, proc, ops, conns, restored,
               catalog>>

VARIABLES
    rpc,            \* the inbound calls of the three servers: request, place in the layer stack, outcome
    log             \* the tracing events emitted by the logging layer, in order

pipevars == <<rpc, log>>

vars == <<max_requests, window, clients, clock, calls, winAllowed, winDenied,
          products, orders, order_items, row_lock, order_lock, tx, proc, ops, conns, restored,
          catalog, rpc, log>>

\* ------------------------------------------------------------------------
\* Order service (order/src/order.rs) over the shared store, with the
\* catalog handlers (product/src/product.rs) and the identity check
\* ------------------------------------------------------------------------
Procs == {1, 2}
ProductIds == {"p1", "p2"}
\* the uuid add_product generates for a new row, and all ids of the catalog
AddedIds == {"p3"}
CatalogIds == ProductIds \cup AddedIds
\* prices in cents (the price columns are fixed-point with two decimals)
Prices == {250, 999}
InitPrice(p) == IF p = "p1" THEN 999 ELSE 250
Quantities == 0..MaxQty
\* "" is the empty string of the request; "u2" is not a registered user
UserIds == {"", "u1", "u2"}
RegisteredUsers == {"u1"}
Addresses == {"", "A"}
NULL == "<null>"
\* order ids: 0 stands for the empty string, 1.. for the generated uuids
OrderIds == {1, 2}
ReqOrderIds == {0} \cup OrderIds

\* OrderStatus numbering of the protocol; any other number is not a status
PENDING == "PENDING"
CONFIRMED == "CONFIRMED"
PROCESSING == "PROCESSING"
SHIPPED == "SHIPPED"
DELIVERED == "DELIVERED"
CANCELLED == "CANCELLED"
Statuses == {PENDING, CONFIRMED, PROCESSING, SHIPPED, DELIVERED, CANCELLED}
StatusNumbers == 0..6

\* OrderStatus::try_from(n).unwrap_or(OrderStatus::Pending), then status_to_string
status_to_string(n) ==
    CASE n = 0 -> PENDING
      [] n = 1 -> CONFIRMED
      [] n = 2 -> PROCESSING
      [] n = 3 -> SHIPPED
      [] n = 4 -> DELIVERED
      [] n = 5 -> CANCELLED
      [] OTHER -> PENDING

\* status_to_proto: the stored string back to the protocol number
status_to_proto(str) ==
    CASE str = PENDING -> 0
      [] str = CONFIRMED -> 1
      [] str = PROCESSING -> 2
      [] str = SHIPPED -> 3
      [] str = DELIVERED -> 4
      [] str = CANCELLED -> 5
      [] OTHER -> 0

Item(p, q) == [product_id |-> p, quantity |-> q]
ItemLists ==
    {<< >>, <<Item("p2", 1)>>, <<Item("p1", MaxQty), Item("p1", 1)>>}
        \cup {<<Item("p1", q)>> : q \in Quantities}
        \cup {<<Item("p1", 1), Item("p2", r)>> : r \in 0..1}

RECURSIVE SumSubtotals(_)
\* sum of price * quantity over rows [quantity, price]
SumSubtotals(rows) ==
    IF rows = << >> THEN 0
    ELSE rows[1].price * rows[1].quantity + SumSubtotals(Tail(rows))

RECURSIVE QtyOf(_, _)
\* total quantity of product p in the rows
QtyOf(rows, p) ==
    IF rows = << >> THEN 0
    ELSE (IF rows[1].product_id = p THEN rows[1].quantity ELSE 0) + QtyOf(Tail(rows), p)

\* the bind value of shipping_address: None when the request's string is empty
BindAddress(a) == IF a = "" THEN NULL ELSE a

NoOrder == [order_id |-> 0]
NoResp == [kind |-> "none"]
\* a normal response (Ok) carrying the success flag, and a fault (Err(Status))
Reply(success, message, order) ==
    [kind |-> "ok", success |-> success, message |-> message, order |-> order]
Fault(message) == [kind |-> "err", success |-> FALSE, message |-> message, order |-> NoOrder]

NoTx == [open |-> FALSE, order |-> NoOrder, items |-> << >>,
         delta |-> [p \in CatalogIds |-> 0], cancel |-> 0]

IdleProc == [pc |-> "idle", op |-> "none", user_id |-> "", items |-> << >>,
             shipping_address |-> "", order_id |-> 0, status |-> 0,
             i |-> 0, total_amount |-> 0, validated |-> << >>,
             order |-> NoOrder, db_items |-> << >>, page |-> 0, page_size |-> 0,
             offset |-> 0, orders |-> << >>, total_count |-> 0, proto_orders |-> << >>,
             resp |-> NoResp]

\* calls the model lets a run start: MaxOps calls of any kind on one connection;
\* with two connections MaxConcOps calls of the order service, and beside them,
\* starting at any moment, the calls that write the catalog (MaxCatalogOps)
Budget == IF conns = 1 THEN MaxOps ELSE MaxConcOps + catalog.calls

\* the store the service finds when it starts: empty, or holding one order
\* that create_order wrote in an earlier run (one unit of p1 for u1)
SeedItems == <<[product_id |-> "p1", quantity |-> 1, price |-> InitPrice("p1")]>>
SeedOrder == [user_id |-> "u1", total_amount |-> InitPrice("p1"), status |-> PENDING,
              shipping_address |-> "A"]

EmptyStore ==
    /\ products = [p \in ProductIds |->
                      [price |-> InitPrice(p), stock_quantity |-> InitStock]]
    /\ orders = << >>
    /\ order_items = << >>

SeededStore ==
    /\ products = [p \in ProductIds |->
                      [price |-> InitPrice(p),
                       stock_quantity |-> InitStock - QtyOf(SeedItems, p)]]
    /\ orders = <<SeedOrder>>
    /\ order_items = <<SeedItems>>

\* the product service's transaction as the owner of a row lock
ProductService == 3

\* no call that writes the catalog in progress; calls counts those started
IdleCatalog == [pc |-> "idle", op |-> "none", product_id |-> "", quantity_change |-> 0,
                stock_quantity |-> 0, new_stock |-> 0, resp |-> NoResp, calls |-> 0]

\* nobody sends the product service a call that writes the catalog
ClosedCatalog == [IdleCatalog EXCEPT !.pc = "closed"]

\* no call in progress on any of the n connections
Serving(n) ==
    /\ row_lock = [p \in CatalogIds |-> 0]
    /\ order_lock = [o \in OrderIds |-> 0]
    /\ tx = [p \in Procs |-> NoTx]
    /\ proc = [p \in Procs |-> IdleProc]
    /\ ops = 0
    /\ conns = n
    /\ restored = [o \in OrderIds |-> [p \in ProductIds |-> 0]]

\* the order service starts; the catalog is not edited
OrderInit(n) == (EmptyStore \/ SeededStore) /\ Serving(n) /\ catalog = ClosedCatalog

\* ------------------------------------------------------------------------
\* Rate limiter (common/src/ratelimit.rs)
\* ------------------------------------------------------------------------
\* req.headers().get("x-forwarded-for"): no such header, or its value, the
\* bytes the client sent
NoHeader == [present |-> FALSE, bytes |-> << >>]
HeaderValue(bytes) == [present |-> TRUE, bytes |-> bytes]
\* the header is missing, holds the text "10", or holds "10" and the byte 0xFF
Headers == {NoHeader, HeaderValue(<<49, 48>>), HeaderValue(<<49, 48, 255>>)}
CallIds == {1, 2}

\* HeaderValue::to_str().ok(): the value as text when all its bytes are
\* visible ASCII (is_visible_ascii: a printable ASCII byte or a tab)
ToStrOk(bytes) ==
    \A i \in DOMAIN bytes : (bytes[i] >= 32 /\ bytes[i] < 127) \/ bytes[i] = 9

\* the bytes of the text "unknown"
UNKNOWN == <<117, 110, 107, 110, 111, 119, 110>>

\* client_id: the text of the x-forwarded-for header, or "unknown" when the
\* header is missing or its value is not text
ClientId(header) ==
    IF header.present /\ ToStrOk(header.bytes) THEN header.bytes ELSE UNKNOWN

ClientIds == {ClientId(h) : h \in Headers}

\* Instant::duration_since saturates at zero when the argument is later
DurationSince(now, earlier) == IF now >= earlier THEN now - earlier ELSE 0

ClientState(c, ws) == [count |-> c, window_start |-> ws]

\* the closure given to and_modify: the new state of an occupied entry and
\* the value it leaves in the captured flag `allowed`
Modified(c, ws, a) == [count |-> c, window_start |-> ws, allowed |-> a]

AndModifyNoLimit(state, now) ==
    IF DurationSince(now, state.window_start) > window
    THEN Modified(1, now, TRUE)
    ELSE Modified(state.count + 1, state.window_start, TRUE)

AndModifyCountingDenied(state, now) ==
    IF DurationSince(now, state.window_start) > window
    THEN Modified(1, now, TRUE)
    ELSE IF state.count < max_requests
         THEN Modified(state.count + 1, state.window_start, TRUE)
         ELSE Modified(state.count + 1, state.window_start, FALSE)

AndModifyResetAtWindow(state, now) ==
    IF DurationSince(now, state.window_start) >= window
    THEN Modified(1, now, TRUE)
    ELSE IF state.count < max_requests
         THEN Modified(state.count + 1, state.window_start, TRUE)
         ELSE Modified(state.count, state.window_start, FALSE)

AndModify(state, now) ==
    IF DurationSince(now, state.window_start) > window
    THEN Modified(1, now, TRUE)
    ELSE IF state.count < max_requests
         THEN Modified(state.count + 1, state.window_start, TRUE)
         ELSE Modified(state.count, state.window_start, FALSE)

\* the closure given to or_insert_with: the state of a vacant entry
OrInsertWith(now) == Modified(1, now, TRUE)

\* what the caller of call() got back: nothing yet, the 429 response built by
\* the layer, or whatever inner.call(req) answered
NoResponse == "none"
TOO_MANY_REQUESTS == "429"
InnerResponse == "inner"

UpsertedEverywhere(k, state) ==
    [x \in DOMAIN clients \cup {k} |-> state]

\* the map after the entry of key k was modified or inserted
Upserted(k, state) ==
    [x \in DOMAIN clients \cup {k} |-> IF x = k THEN state ELSE clients[x]]

IdleCall == [pc |-> "idle", header |-> NoHeader, client_id |-> UNKNOWN, now |-> 0,
             allowed |-> FALSE, guard |-> FALSE, response |-> NoResponse]

\* the call is over: the request has gone to the inner service or was dropped;
\* the response and the decision it was built from stay
Answered(call, response) ==
    [IdleCall EXCEPT !.client_id = call.client_id,
                     !.allowed = call.allowed,
                     !.response = response]

\* an inbound call of a server: nothing received yet
NoRequest == [path |-> "", header |-> NoHeader]
NoResult == [ready |-> FALSE, ok |-> FALSE, status |-> 0]
IdleRpc == [pc |-> "idle", service |-> "none", inbound |-> NoRequest, req |-> NoRequest,
            depth |-> 0, trace |-> << >>, start |-> 0, now |-> 0, allowed |-> TRUE,
            handled |-> FALSE,
            output |-> NoResult, response |-> NoResult]

\* no server has received a call
PipeQuiet ==
    /\ rpc = [c \in CallIds |-> IdleRpc]
    /\ log = << >>

RLInit ==
    /\ EmptyStore
    /\ Serving(1)
    /\ catalog = ClosedCatalog
    /\ PipeQuiet
    /\ max_requests \in 0..MaxLimit
    /\ window \in 0..MaxWindow
    /\ clients = << >>
    /\ clock = 0
    /\ calls = [c \in CallIds |-> IdleCall]
    /\ winAllowed = [k \in ClientIds |-> 0]
    /\ winDenied = [k \in ClientIds |-> 0]

\* time passes
Tick ==
    /\ clock < MaxTime
    /\ clock' = clock + 1
    /\ UNCHANGED <<max_requests, window, clients, calls, winAllowed, winDenied>>
    /\ UNCHANGED <<ordervars, pipevars>>

\* call(): extract the client id and read the clock (before the map entry is
\* taken); the next call is numbered with the lowest free number
RLCall(c) ==
    /\ calls[c].pc = "idle"
    /\ \A d \in CallIds : d < c => calls[d].pc # "idle"
    /\ \E h \in Headers :
         calls' = [calls EXCEPT ![c] =
                     [pc |-> "called", header |-> h, client_id |-> ClientId(h), now |-> clock,
                      allowed |-> FALSE, guard |-> FALSE, response |-> NoResponse]]
    /\ UNCHANGED <<max_requests, window, clients, clock, winAllowed, winDenied>>
    /\ UNCHANGED <<ordervars, pipevars>>

GuardHeldByAllowed(allowed) == allowed

\* the RefMut that entry(..).or_insert_with(..) returns is a temporary of the
\* statement: the guard of the shard is dropped at its end, allowed or not
GuardAfterEntry(allowed) == FALSE

\* clients.entry(id).and_modify(..).or_insert_with(..): one step under the shard lock
RLEntry(c) ==
    /\ calls[c].pc = "called"
    /\ \A d \in CallIds : ~calls[d].guard
    /\ LET k == calls[c].client_id
           now == calls[c].now
           occupied == k \in DOMAIN clients
           entry == IF occupied THEN AndModify(clients[k], now) ELSE OrInsertWith(now)
           state == ClientState(entry.count, entry.window_start)
           allowed == entry.allowed
           fresh == (~occupied) \/ state.window_start # clients[k].window_start
       IN /\ clients' = Upserted(k, state)
          /\ calls' = [calls EXCEPT ![c].pc = "decided", ![c].allowed = allowed,
                                    ![c].guard = GuardAfterEntry(allowed)]
          /\ winAllowed' = [winAllowed EXCEPT ![k] =
                               (IF fresh THEN 0 ELSE @) + (IF allowed THEN 1 ELSE 0)]
          /\ winDenied' = [winDenied EXCEPT ![k] =
                               IF fresh THEN 0
                               ELSE IF allowed THEN @ ELSE 1]
    /\ UNCHANGED <<max_requests, window, clock>>
    /\ UNCHANGED <<ordervars, pipevars>>

\* the returned future, not allowed: 429 without calling the inner service
RLTooManyRequests(c) ==
    /\ calls[c].pc = "decided"
    /\ ~calls[c].allowed
    /\ calls' = [calls EXCEPT ![c] = Answered(calls[c], TOO_MANY_REQUESTS)]
    /\ UNCHANGED <<max_requests, window, clients, clock, winAllowed, winDenied>>
    /\ UNCHANGED <<ordervars, pipevars>>

\* the returned future, allowed: inner.call(req)
RLInner(c) ==
    /\ calls[c].pc = "decided"
    /\ calls[c].allowed
    /\ calls' = [calls EXCEPT ![c] = Answered(calls[c], InnerResponse)]
    /\ UNCHANGED <<max_requests, window, clients, clock, winAllowed, winDenied>>
    /\ UNCHANGED <<ordervars, pipevars>>

\* ------------------------------------------------------------------------
\* The servers and their layers (user, product, order main.rs;
\* common/src/logging.rs, common/src/ratelimit.rs)
\* ------------------------------------------------------------------------
Services == {"user", "product", "order"}
LoggingLayer == "LoggingLayer"
RateLimitLayer == "RateLimitLayer"

\* Server::builder() of each main: the layers it adds, outermost first
UserLayers == <<LoggingLayer, RateLimitLayer>>
ProductLayers == << >>
OrderLayers == << >>
Layers(service) ==
    IF service = "user" THEN UserLayers
    ELSE IF service = "product" THEN ProductLayers
    ELSE OrderLayers

\* one gRPC method of each server
Path(service) ==
    IF service = "user" THEN "/user.UserService/Verify"
    ELSE IF service = "product" THEN "/product.ProductService/CheckAvailability"
    ELSE "/order.OrderService/CreateOrder"

\* Result<Response<BoxBody>, E> of a future that is ready
Ok(status) == [ready |-> TRUE, ok |-> TRUE, status |-> status]
Err == [ready |-> TRUE, ok |-> FALSE, status |-> 0]
\* what the routed handler answers: a response, or the error of the service
HandlerResults == {Ok(200), Err}

\* the layer the call is about to enter, "handler" below the last layer
LayerAt(call) ==
    IF call.depth <= Len(Layers(call.service)) THEN Layers(call.service)[call.depth]
    ELSE "handler"

\* the request arrives at the server
Inbound(c) ==
    /\ rpc[c].pc = "idle"
    /\ \E service \in Services, h \in Headers :
         LET request == [path |-> Path(service), header |-> h]
         IN rpc' = [rpc EXCEPT ![c] =
                      [IdleRpc EXCEPT !.pc = "layer", !.service = service,
                                      !.inbound = request, !.req = request, !.depth = 1]]
    /\ UNCHANGED log
    /\ UNCHANGED <<rlvars, ordervars>>

\* the event of LoggingService::call
Started(path) ==
    [level |-> "INFO", message |-> "gRPC request started", path |-> path,
     status |-> 0, duration |-> 0]

\* LoggingService::call: the start event, then inner.call(req)
LoggingServiceCall(c) ==
    /\ rpc[c].pc = "layer"
    /\ LayerAt(rpc[c]) = LoggingLayer
    /\ log' = Append(log, Started(rpc[c].req.path))
    /\ rpc' = [rpc EXCEPT ![c].start = clock,
                          ![c].trace = Append(@, LoggingLayer),
                          ![c].depth = @ + 1]
    /\ UNCHANGED <<rlvars, ordervars>>

\* RateLimitService::call, lines 72-79: the client id is extracted and the
\* clock is read, before the entry of the map is taken
RateLimitServiceCall(c) ==
    /\ rpc[c].pc = "layer"
    /\ LayerAt(rpc[c]) = RateLimitLayer
    /\ rpc' = [rpc EXCEPT ![c].pc = "entry", ![c].now = clock,
                          ![c].trace = Append(@, RateLimitLayer)]
    /\ UNCHANGED log
    /\ UNCHANGED <<rlvars, ordervars>>

\* RateLimitService::call, lines 83-104: the entry of the client is modified
\* or inserted under the lock of its shard, with the time read before, and
\* the future is returned
RateLimitServiceEntry(c) ==
    /\ rpc[c].pc = "entry"
    /\ LET k == ClientId(rpc[c].req.header)
           now == rpc[c].now
           entry == IF k \in DOMAIN clients THEN AndModify(clients[k], now)
                    ELSE OrInsertWith(now)
       IN /\ clients' = Upserted(k, ClientState(entry.count, entry.window_start))
          /\ rpc' = [rpc EXCEPT ![c].pc = "future", ![c].now = 0,
                                ![c].allowed = entry.allowed]
    /\ UNCHANGED <<max_requests, window, clock, calls, winAllowed, winDenied, log>>
    /\ UNCHANGED ordervars

\* the future of RateLimitService, lines 106-120, polled: the 429 response
\* when the request was not allowed, else inner.call(req)
RateLimitServiceFuture(c) ==
    /\ rpc[c].pc = "future"
    /\ rpc' = [rpc EXCEPT ![c] =
                 IF rpc[c].allowed
                 THEN [@ EXCEPT !.pc = "layer", !.depth = @ + 1]
                 ELSE [@ EXCEPT !.pc = "ready", !.output = Ok(429)]]
    /\ UNCHANGED log
    /\ UNCHANGED <<rlvars, ordervars>>

\* the call reaches the routed service: the business handler runs
Handler(c) ==
    /\ rpc[c].pc = "layer"
    /\ LayerAt(rpc[c]) = "handler"
    /\ \E result \in HandlerResults :
         rpc' = [rpc EXCEPT ![c].handled = TRUE, ![c].pc = "ready", ![c].output = result]
    /\ UNCHANGED log
    /\ UNCHANGED <<rlvars, ordervars>>

ResponseFuturePollMasking(result, path, duration) ==
    IF result.ok
    THEN [event |-> [level |-> "INFO", message |-> "gRPC request completed", path |-> path,
                     status |-> result.status, duration |-> duration],
          output |-> result]
    ELSE [event |-> [level |-> "ERROR", message |-> "gRPC request failed", path |-> path,
                     status |-> 0, duration |-> duration],
          output |-> Ok(500)]

ResponseFuturePollAllInfo(result, path, duration) ==
    [event |-> [level |-> "INFO", message |-> "gRPC request completed", path |-> path,
                status |-> result.status, duration |-> duration],
     output |-> result]

\* ResponseFuture::poll on Poll::Ready(result): the event and the value returned
ResponseFuturePoll(result, path, duration) ==
    IF result.ok
    THEN [event |-> [level |-> "INFO", message |-> "gRPC request completed", path |-> path,
                     status |-> result.status, duration |-> duration],
          output |-> result]
    ELSE [event |-> [level |-> "ERROR", message |-> "gRPC request failed", path |-> path,
                     status |-> 0, duration |-> duration],
          output |-> result]

\* the future of the outermost layer is ready and the server sends its output
Respond(c) ==
    /\ rpc[c].pc = "ready"
    /\ IF rpc[c].trace # << >> /\ rpc[c].trace[1] = LoggingLayer
       THEN LET polled == ResponseFuturePoll(rpc[c].output, rpc[c].inbound.path,
                                             DurationSince(clock, rpc[c].start))
            IN /\ log' = Append(log, polled.event)
               /\ rpc' = [rpc EXCEPT ![c].pc = "done", ![c].response = polled.output]
       ELSE /\ rpc' = [rpc EXCEPT ![c].pc = "done", ![c].response = rpc[c].output]
            /\ UNCHANGED log
    /\ UNCHANGED <<rlvars, ordervars>>

\* ---- helpers of the handlers ----
Released(locks, p) == [x \in DOMAIN locks |-> IF locks[x] = p THEN 0 ELSE locks[x]]

\* the handler returns: the request, the loop index it stopped at and the
\* response stay, the other locals are dropped
Finished(me, resp) ==
    [IdleProc EXCEPT !.pc = "done", !.op = me.op, !.user_id = me.user_id,
                     !.items = me.items, !.shipping_address = me.shipping_address,
                     !.order_id = me.order_id, !.status = me.status, !.i = me.i,
                     !.page = me.page, !.page_size = me.page_size,
                     !.resp = resp]

\* product service check_availability: the row exists and has enough stock
check_availability(product_id, quantity) ==
    /\ product_id \in DOMAIN products
    /\ products[product_id].stock_quantity >= quantity

\* get_product_price: Some(price) of the row, None when there is no row
NoPrice == -1
get_product_price(product_id) ==
    IF product_id \in DOMAIN products THEN products[product_id].price ELSE NoPrice

get_order_items_live(rows) ==
    [k \in 1..Len(rows) |->
        [product_id |-> rows[k].product_id, quantity |-> rows[k].quantity,
         unit_price |-> get_product_price(rows[k].product_id),
         subtotal |-> get_product_price(rows[k].product_id) * rows[k].quantity]]

\* get_order_items: the rows of the order as OrderItem values
get_order_items(rows) ==
    [k \in 1..Len(rows) |->
        [product_id |-> rows[k].product_id, quantity |-> rows[k].quantity,
         unit_price |-> rows[k].price, subtotal |-> rows[k].price * rows[k].quantity]]

\* db_order_to_proto: the Order value of a row and its items
db_order_to_proto(id, row, rows) ==
    [order_id |-> id, user_id |-> row.user_id, items |-> get_order_items(rows),
     total_amount |-> row.total_amount, status |-> status_to_proto(row.status),
     shipping_address |-> IF row.shipping_address = NULL THEN "" ELSE row.shipping_address]

\* creations that have not committed yet
PendingCreates ==
    {q \in Procs : proc[q].op = "create"
                   /\ proc[q].pc \in {"verify", "check", "price", "begin", "item", "commit"}}

\* a fresh uuid: an id no committed row and no open transaction uses
FreshIds == {o \in OrderIds : o \notin DOMAIN orders /\ \A q \in Procs : tx[q].order.order_id # o}

\* the transaction of p ends (commit, rollback, or its guard is dropped):
\* its row locks are released
EndTx(p) ==
    /\ tx' = [tx EXCEPT ![p] = NoTx]
    /\ row_lock' = Released(row_lock, p)
    /\ order_lock' = Released(order_lock, p)

\* Err(Status) returned with `?`: the handler ends, an open transaction is rolled back
Fail(p, message) ==
    /\ proc' = [proc EXCEPT ![p] = Finished(proc[p], Fault(message))]
    /\ EndTx(p)
    /\ UNCHANGED <<products, orders, order_items, ops, conns, restored>>

\* a call is handled on the first idle connection; the clients send it when
\* the response of the product service, if one is due, has been read
Accepts(p) ==
    /\ catalog.pc # "done"
    /\ proc[p].pc = "idle"
    /\ p <= conns
    /\ \A q \in Procs : q < p => proc[q].pc # "idle"

\* The requests the model sends. A field the handler cannot read for the
\* request, because it returns before, has its default value (an empty
\* string, an empty list, 0).
\* With two connections, or with calls that write the catalog, the statuses
\* and addresses of the requests are those the interleavings turn on:
\* PENDING, DELIVERED and CANCELLED, no address.
AllRequests == conns = 1 /\ catalog.pc = "closed"
ReqStatuses ==
    IF AllRequests THEN StatusNumbers
    ELSE {status_to_proto(PENDING), status_to_proto(DELIVERED), status_to_proto(CANCELLED)}
ReqAddresses == IF AllRequests THEN Addresses ELSE {""}

CreateRequests ==
    {[user_id |-> "", items |-> << >>, shipping_address |-> ""]}
        \cup {[user_id |-> u, items |-> << >>, shipping_address |-> ""] :
                 u \in UserIds \ {""}}
        \cup {[user_id |-> u, items |-> <<Item("p2", 1)>>, shipping_address |-> ""] :
                 u \in UserIds \ ({""} \cup RegisteredUsers)}
        \cup {[user_id |-> u, items |-> its, shipping_address |-> a] :
                 u \in RegisteredUsers, its \in ItemLists \ {<< >>}, a \in ReqAddresses}

UpdateRequests ==
    {[order_id |-> 0, status |-> 0, shipping_address |-> ""]}
        \cup {[order_id |-> id, status |-> st, shipping_address |-> a] :
                 id \in OrderIds, st \in ReqStatuses, a \in ReqAddresses}

CancelRequests ==
    {[order_id |-> 0, user_id |-> ""]}
        \cup {[order_id |-> id, user_id |-> u] : id \in OrderIds, u \in UserIds}

\* ---- create_order ----
\* lines 224-243: the request arrives, user_id and items are validated
CreateOrder(p) ==
    /\ Accepts(p)
    /\ ops < Budget
    /\ Cardinality(DOMAIN orders) + Cardinality(PendingCreates) < Cardinality(OrderIds)
    /\ \E req \in CreateRequests :
         LET u == req.user_id
             its == req.items
             a == req.shipping_address
             me == [IdleProc EXCEPT !.op = "create", !.user_id = u, !.items = its,
                                    !.shipping_address = a]
         IN proc' = [proc EXCEPT ![p] =
               IF u = "" THEN Finished(me, Reply(FALSE, "User ID is required", NoOrder))
               ELSE IF its = << >>
                    THEN Finished(me, Reply(FALSE, "Order must contain at least one item", NoOrder))
                    ELSE [me EXCEPT !.pc = "verify"]]
    /\ ops' = ops + 1
    /\ UNCHANGED <<products, orders, order_items, row_lock, order_lock, tx, conns, restored>>
    /\ UNCHANGED <<rlvars, pipevars, catalog>>

\* the faults of a call to another service: Status::unavailable when the
\* connection fails, Status::internal when the call fails
UserServiceFaults == {"Failed to connect to user service", "User service error"}
ProductServiceFaults == {"Failed to connect to product service", "Product service error"}

verifyAnyone(user_id) == TRUE

\* user service verify: the user exists
verify(user_id) == user_id \in RegisteredUsers

\* lines 245-253: verify_user_by_id
VerifyUser(p) ==
    /\ proc[p].pc = "verify"
    /\ \/ \E message \in UserServiceFaults : Fail(p, message)
       \/ /\ proc' = [proc EXCEPT ![p] =
                 IF verify(proc[p].user_id)
                 THEN [@ EXCEPT !.pc = "check", !.i = 1, !.total_amount = 0, !.validated = << >>]
                 ELSE Finished(@, Reply(FALSE, "User not found", NoOrder))]
          /\ UNCHANGED <<products, orders, order_items, row_lock, order_lock, tx, ops, conns, restored>>
    /\ UNCHANGED <<rlvars, pipevars, catalog>>

CheckItemIgnoringAvailability(p) ==
    /\ proc[p].pc = "check"
    /\ LET me == proc[p]
           item == me.items[me.i]
       IN IF item.quantity <= 0
          THEN /\ proc' = [proc EXCEPT ![p] =
                      Finished(me, Reply(FALSE, "Invalid quantity for product", NoOrder))]
               /\ UNCHANGED <<products, orders, order_items, row_lock, order_lock, tx, ops, conns, restored>>
          ELSE \/ \E message \in ProductServiceFaults : Fail(p, message)
               \/ /\ proc' = [proc EXCEPT ![p].pc = "price"]
                  /\ UNCHANGED <<products, orders, order_items, row_lock, order_lock, tx, ops, conns, restored>>
    /\ UNCHANGED <<rlvars, pipevars, catalog>>

CheckItemNegativeOnly(p) ==
    /\ proc[p].pc = "check"
    /\ LET me == proc[p]
           item == me.items[me.i]
       IN IF item.quantity < 0
          THEN /\ proc' = [proc EXCEPT ![p] =
                      Finished(me, Reply(FALSE, "Invalid quantity for product", NoOrder))]
               /\ UNCHANGED <<products, orders, order_items, row_lock, order_lock, tx, ops, conns, restored>>
          ELSE \/ \E message \in ProductServiceFaults : Fail(p, message)
               \/ /\ proc' = [proc EXCEPT ![p] =
                         IF check_availability(item.product_id, item.quantity)
                         THEN [me EXCEPT !.pc = "price"]
                         ELSE Finished(me, Reply(FALSE, "Product not available in requested quantity", NoOrder))]
                  /\ UNCHANGED <<products, orders, order_items, row_lock, order_lock, tx, ops, conns, restored>>
    /\ UNCHANGED <<rlvars, pipevars, catalog>>

\* lines 259-283: the quantity check and check_product_availability of item i
CheckItem(p) ==
    /\ proc[p].pc = "check"
    /\ LET me == proc[p]
           item == me.items[me.i]
       IN IF item.quantity <= 0
          THEN /\ proc' = [proc EXCEPT ![p] =
                      Finished(me, Reply(FALSE, "Invalid quantity for product", NoOrder))]
               /\ UNCHANGED <<products, orders, order_items, row_lock, order_lock, tx, ops, conns, restored>>
          ELSE \/ \E message \in ProductServiceFaults : Fail(p, message)
               \/ /\ proc' = [proc EXCEPT ![p] =
                         IF check_availability(item.product_id, item.quantity)
                         THEN [me EXCEPT !.pc = "price"]
                         ELSE Finished(me, Reply(FALSE, "Product not available in requested quantity", NoOrder))]
                  /\ UNCHANGED <<products, orders, order_items, row_lock, order_lock, tx, ops, conns, restored>>
    /\ UNCHANGED <<rlvars, pipevars, catalog>>

\* lines 285-302: get_product_price of item i, the running total
GetPrice(p) ==
    /\ proc[p].pc = "price"
    /\ LET me == proc[p]
           item == me.items[me.i]
           price == get_product_price(item.product_id)
       IN \/ Fail(p, "Database error")
          \/ /\ proc' = [proc EXCEPT ![p] =
                    IF price = NoPrice
                    THEN Finished(me, Reply(FALSE, "Product not found", NoOrder))
                    ELSE [me EXCEPT !.total_amount = @ + price * item.quantity,
                                    !.validated = Append(@, price),
                                    !.i = @ + 1,
                                    !.pc = IF me.i = Len(me.items) THEN "begin" ELSE "check"]]
             /\ UNCHANGED <<products, orders, order_items, row_lock, order_lock, tx, ops, conns, restored>>
    /\ UNCHANGED <<rlvars, pipevars, catalog>>

\* lines 304-331: begin the transaction, generate the order id, INSERT INTO orders
CreateBegin(p) ==
    /\ proc[p].pc = "begin"
    /\ LET me == proc[p]
           id == CHOOSE o \in FreshIds : \A o2 \in FreshIds : o <= o2
           row == [order_id |-> id, user_id |-> me.user_id,
                   total_amount |-> me.total_amount, status |-> PENDING,
                   shipping_address |-> BindAddress(me.shipping_address)]
       IN \/ Fail(p, "Transaction error")
          \/ Fail(p, "Database error")
          \/ /\ FreshIds # {}
             /\ tx' = [tx EXCEPT ![p] = [NoTx EXCEPT !.open = TRUE, !.order = row]]
             /\ proc' = [proc EXCEPT ![p].pc = "item", ![p].order_id = id, ![p].i = 1]
             /\ UNCHANGED <<products, orders, order_items, row_lock, order_lock, ops, conns, restored>>
    /\ UNCHANGED <<rlvars, pipevars, catalog>>

\* a statement of the transaction of p on the products row: the row is locked
\* until the transaction ends and stock_quantity = stock_quantity + change is
\* applied to the row as last committed; `inserted` is the order_items row the
\* transaction inserts before it (NoRow for none)
NoRow == [product_id |-> ""]
StockUpdateLast(p, product_id, change, inserted) ==
    /\ tx' = [tx EXCEPT ![p].delta[product_id] =
                            IF product_id \in DOMAIN products THEN change ELSE @,
                        ![p].items = IF inserted = NoRow THEN @ ELSE Append(@, inserted)]
    /\ row_lock' = IF product_id \in DOMAIN products
                   THEN [row_lock EXCEPT ![product_id] = p]
                   ELSE row_lock

StockUpdate(p, product_id, change, inserted) ==
    /\ tx' = [tx EXCEPT ![p].delta[product_id] =
                            IF product_id \in DOMAIN products THEN @ + change ELSE @,
                        ![p].items = IF inserted = NoRow THEN @ ELSE Append(@, inserted)]
    /\ row_lock' = IF product_id \in DOMAIN products
                   THEN [row_lock EXCEPT ![product_id] = p]
                   ELSE row_lock

\* lines 334-361: INSERT INTO order_items for validated item i, then the stock
\* of its product is decremented; the loop goes on
CreateItem(p) ==
    /\ proc[p].pc = "item"
    /\ LET me == proc[p]
           item == me.items[me.i]
           row == [product_id |-> item.product_id, quantity |-> item.quantity,
                   price |-> me.validated[me.i]]
       IN \/ Fail(p, "Database error")
          \/ /\ row_lock[item.product_id] \in {0, p}
             /\ StockUpdate(p, item.product_id, 0 - item.quantity, row)
             /\ proc' = [proc EXCEPT ![p].i = @ + 1,
                                     ![p].pc = IF me.i = Len(me.items) THEN "commit"
                                               ELSE "item"]
             /\ UNCHANGED <<products, orders, order_items, order_lock, ops, conns, restored>>
    /\ UNCHANGED <<rlvars, pipevars, catalog>>

\* the products table after the transaction of p commits
CommittedProductsNoStock(p) == products

CommittedProductsAbsolute(p) ==
    [x \in DOMAIN products |->
        [products[x] EXCEPT !.stock_quantity =
            IF tx[p].delta[x] = 0 THEN @ ELSE InitStock + tx[p].delta[x]]]

CommittedProductsEveryRow(p) ==
    [x \in DOMAIN products |->
        [products[x] EXCEPT !.stock_quantity = @ + tx[p].delta["p1"] + tx[p].delta["p2"]]]

CommittedProductsClamped(p) ==
    [x \in DOMAIN products |->
        [products[x] EXCEPT !.stock_quantity =
            IF @ + tx[p].delta[x] < 0 THEN @ ELSE @ + tx[p].delta[x]]]

CommittedProducts(p) ==
    [x \in DOMAIN products |->
        [products[x] EXCEPT !.stock_quantity = @ + tx[p].delta[x]]]

\* lines 363-365: commit; the order, its items and the decrements become visible
CreateCommit(p) ==
    /\ proc[p].pc = "commit"
    /\ LET me == proc[p]
           id == me.order_id
       IN \/ Fail(p, "Commit error")
          \/ /\ orders' = [o \in DOMAIN orders \cup {id} |->
                              IF o = id THEN [user_id |-> tx[p].order.user_id,
                                              total_amount |-> tx[p].order.total_amount,
                                              status |-> tx[p].order.status,
                                              shipping_address |-> tx[p].order.shipping_address]
                              ELSE orders[o]]
             /\ order_items' = [o \in DOMAIN order_items \cup {id} |->
                                   IF o = id THEN tx[p].items ELSE order_items[o]]
             /\ products' = CommittedProducts(p)
             /\ EndTx(p)
             /\ proc' = [proc EXCEPT ![p].pc = "fetch"]
             /\ UNCHANGED <<ops, conns, restored>>
    /\ UNCHANGED <<rlvars, pipevars, catalog>>

\* lines 367-384 and 427-443: SELECT the order row again (fetch_one), then
\* db_order_to_proto (the item rows, the product names from the product
\* service) and the success response
FetchOrder(p) ==
    /\ proc[p].pc = "fetch"
    /\ LET me == proc[p]
       IN \/ Fail(p, "Database error")
          \/ \E message \in ProductServiceFaults : Fail(p, message)
          \/ /\ me.order_id \in DOMAIN orders
             /\ proc' = [proc EXCEPT ![p] =
                    Finished(me, Reply(TRUE, IF me.op = "create"
                                             THEN "Order created successfully"
                                             ELSE "Order updated successfully",
                                       db_order_to_proto(me.order_id, orders[me.order_id],
                                                         order_items[me.order_id])))]
             /\ UNCHANGED <<products, orders, order_items, row_lock, order_lock, tx, ops, conns, restored>>
    /\ UNCHANGED <<rlvars, pipevars, catalog>>

\* the response has been sent; the connection takes the next request
Return(p) ==
    /\ proc[p].pc = "done"
    /\ proc' = [proc EXCEPT ![p] = IdleProc]
    /\ UNCHANGED <<products, orders, order_items, row_lock, order_lock, tx, ops, conns, restored>>
    /\ UNCHANGED <<rlvars, pipevars, catalog>>

\* ---- update_order ----
\* lines 391-402: the request arrives, order_id is validated
UpdateOrder(p) ==
    /\ Accepts(p)
    /\ ops < Budget
    /\ \E req \in UpdateRequests :
         LET id == req.order_id
             st == req.status
             a == req.shipping_address
             me == [IdleProc EXCEPT !.op = "update", !.order_id = id, !.status = st,
                                    !.shipping_address = a]
         IN proc' = [proc EXCEPT ![p] =
               IF id = 0 THEN Finished(me, Reply(FALSE, "Order ID is required", NoOrder))
               ELSE [me EXCEPT !.pc = "update"]]
    /\ ops' = ops + 1
    /\ UNCHANGED <<products, orders, order_items, row_lock, order_lock, tx, conns, restored>>
    /\ UNCHANGED <<rlvars, pipevars, catalog>>

UpdatedRowZeroTotal(row, status, address) ==
    [row EXCEPT !.status = status_to_string(status),
                !.shipping_address = BindAddress(address),
                !.total_amount = 0]

UpdatedRowLegal(row, status, address) ==
    [row EXCEPT !.status = IF @ \in {CANCELLED, DELIVERED} THEN @ ELSE status_to_string(status),
                !.shipping_address = BindAddress(address)]

\* the row written by UPDATE orders SET status = $1, shipping_address = $2
UpdatedRow(row, status, address) ==
    [row EXCEPT !.status = status_to_string(status),
                !.shipping_address = BindAddress(address)]

\* lines 404-425: the UPDATE statement (autocommit) and rows_affected
UpdateOrderExec(p) ==
    /\ proc[p].pc = "update"
    /\ LET me == proc[p]
           id == me.order_id
       IN \/ Fail(p, "Database error")
          \/ /\ id \notin DOMAIN orders
             /\ proc' = [proc EXCEPT ![p] = Finished(me, Reply(FALSE, "Order not found", NoOrder))]
             /\ UNCHANGED <<products, orders, order_items, row_lock, order_lock, tx, ops, conns, restored>>
          \/ /\ id \in DOMAIN orders
             /\ order_lock[id] = 0
             /\ orders' = [orders EXCEPT ![id] = UpdatedRow(@, me.status, me.shipping_address)]
             /\ proc' = [proc EXCEPT ![p].pc = "fetch"]
             /\ UNCHANGED <<products, order_items, row_lock, order_lock, tx, ops, conns, restored>>
    /\ UNCHANGED <<rlvars, pipevars, catalog>>

\* ---- cancel_order ----
\* lines 450-457: the request arrives, order_id is validated
CancelOrder(p) ==
    /\ Accepts(p)
    /\ ops < Budget
    /\ \E req \in CancelRequests :
         LET id == req.order_id
             u == req.user_id
             me == [IdleProc EXCEPT !.op = "cancel", !.order_id = id, !.user_id = u]
         IN proc' = [proc EXCEPT ![p] =
               IF id = 0 THEN Finished(me, Reply(FALSE, "Order ID is required", NoOrder))
               ELSE [me EXCEPT !.pc = "cancel_read"]]
    /\ ops' = ops + 1
    /\ UNCHANGED <<products, orders, order_items, row_lock, order_lock, tx, conns, restored>>
    /\ UNCHANGED <<rlvars, pipevars, catalog>>

\* the rejection of lines 476-517 for the row read, "" when the order may be cancelled
CancelRejectionNoDelivered(present, row, user_id) ==
    IF ~present THEN "Order not found"
    ELSE IF user_id # "" /\ row.user_id # user_id THEN "Order does not belong to this user"
    ELSE IF row.status = CANCELLED THEN "Order is already cancelled"
    ELSE ""

CancelRejectionAnyUser(present, row, user_id) ==
    IF ~present THEN "Order not found"
    ELSE IF row.status = CANCELLED THEN "Order is already cancelled"
    ELSE IF row.status = DELIVERED THEN "Cannot cancel delivered order"
    ELSE ""

CancelRejectionShipped(present, row, user_id) ==
    IF ~present THEN "Order not found"
    ELSE IF user_id # "" /\ row.user_id # user_id THEN "Order does not belong to this user"
    ELSE IF row.status = CANCELLED THEN "Order is already cancelled"
    ELSE IF row.status \in {DELIVERED, SHIPPED} THEN "Cannot cancel delivered order"
    ELSE ""

CancelRejection(present, row, user_id) ==
    IF ~present THEN "Order not found"
    ELSE IF user_id # "" /\ row.user_id # user_id THEN "Order does not belong to this user"
    ELSE IF row.status = CANCELLED THEN "Order is already cancelled"
    ELSE IF row.status = DELIVERED THEN "Cannot cancel delivered order"
    ELSE ""

\* lines 459-526: begin the transaction, SELECT the order (no row lock is
\* taken), the checks on it with the rollback of a rejection, SELECT its items
CancelRead(p) ==
    /\ proc[p].pc = "cancel_read"
    /\ LET me == proc[p]
           id == me.order_id
           present == id \in DOMAIN orders
           row == IF present THEN orders[id] ELSE NoOrder
           rejection == CancelRejection(present, row, me.user_id)
       IN \/ Fail(p, "Transaction error")
          \/ Fail(p, "Database error")
          \/ /\ rejection # ""
             /\ Fail(p, "Rollback error")
          \/ /\ rejection # ""
             /\ proc' = [proc EXCEPT ![p] = Finished(me, Reply(FALSE, rejection, NoOrder))]
             /\ UNCHANGED <<products, orders, order_items, row_lock, order_lock, tx, ops, conns, restored>>
          \/ /\ rejection = ""
             /\ tx' = [tx EXCEPT ![p] = [NoTx EXCEPT !.open = TRUE]]
             /\ proc' = [proc EXCEPT ![p].order = row,
                                     ![p].db_items = order_items[id],
                                     ![p].i = 1,
                                     ![p].pc = IF order_items[id] = << >>
                                               THEN "cancel_status" ELSE "cancel_restore"]
             /\ UNCHANGED <<products, orders, order_items, row_lock, order_lock, ops, conns, restored>>
    /\ UNCHANGED <<rlvars, pipevars, catalog>>

\* lines 528-537: the quantity of item i is added back to the stock
CancelRestore(p) ==
    /\ proc[p].pc = "cancel_restore"
    /\ LET me == proc[p]
           item == me.db_items[me.i]
       IN \/ Fail(p, "Database error")
          \/ /\ row_lock[item.product_id] \in {0, p}
             /\ StockUpdate(p, item.product_id, item.quantity, NoRow)
             /\ proc' = [proc EXCEPT ![p].i = @ + 1,
                                     ![p].pc = IF me.i = Len(me.db_items) THEN "cancel_status"
                                               ELSE "cancel_restore"]
             /\ UNCHANGED <<products, orders, order_items, order_lock, ops, conns, restored>>
    /\ UNCHANGED <<rlvars, pipevars, catalog>>

\* lines 539-546: UPDATE orders SET status = 'CANCELLED' inside the transaction
CancelSetStatus(p) ==
    /\ proc[p].pc = "cancel_status"
    /\ LET id == proc[p].order_id
       IN \/ Fail(p, "Database error")
          \/ /\ order_lock[id] \in {0, p}
             /\ order_lock' = [order_lock EXCEPT ![id] = p]
             /\ tx' = [tx EXCEPT ![p].cancel = id]
             /\ proc' = [proc EXCEPT ![p].pc = "cancel_commit"]
             /\ UNCHANGED <<products, orders, order_items, row_lock, ops, conns, restored>>
    /\ UNCHANGED <<rlvars, pipevars, catalog>>

\* lines 548-555: commit; the restored stock and the status become visible
CancelCommit(p) ==
    /\ proc[p].pc = "cancel_commit"
    /\ LET me == proc[p]
           id == me.order_id
       IN \/ Fail(p, "Commit error")
          \/ /\ orders' = [orders EXCEPT ![id].status = CANCELLED]
             /\ products' = CommittedProducts(p)
             /\ restored' = [restored EXCEPT ![id] =
                                [x \in ProductIds |-> @[x] + tx[p].delta[x]]]
             /\ EndTx(p)
             /\ proc' = [proc EXCEPT ![p] =
                            Finished(me, Reply(TRUE, "Order cancelled successfully", NoOrder))]
             /\ UNCHANGED <<order_items, ops, conns>>
    /\ UNCHANGED <<rlvars, pipevars, catalog>>

\* ---- get_order ----
\* lines 562-570: the request arrives, order_id is validated
GetOrder(p) ==
    /\ Accepts(p)
    /\ ops < Budget
    /\ \E id \in ReqOrderIds :
         LET me == [IdleProc EXCEPT !.op = "get", !.order_id = id]
         IN proc' = [proc EXCEPT ![p] =
               IF id = 0 THEN Finished(me, Reply(FALSE, "Order ID is required", NoOrder))
               ELSE [me EXCEPT !.pc = "get"]]
    /\ ops' = ops + 1
    /\ UNCHANGED <<products, orders, order_items, row_lock, order_lock, tx, conns, restored>>
    /\ UNCHANGED <<rlvars, pipevars, catalog>>

\* lines 572-595: SELECT the order row (fetch_optional), db_order_to_proto
GetOrderFetch(p) ==
    /\ proc[p].pc = "get"
    /\ LET me == proc[p]
           id == me.order_id
       IN \/ Fail(p, "Database error")
          \/ /\ id \in DOMAIN orders
             /\ \E message \in ProductServiceFaults : Fail(p, message)
          \/ /\ proc' = [proc EXCEPT ![p] =
                    IF id \in DOMAIN orders
                    THEN Finished(me, Reply(TRUE, "Order retrieved successfully",
                                            db_order_to_proto(id, orders[id], order_items[id])))
                    ELSE Finished(me, Reply(FALSE, "Order not found", NoOrder))]
             /\ UNCHANGED <<products, orders, order_items, row_lock, order_lock, tx, ops, conns, restored>>
    /\ UNCHANGED <<rlvars, pipevars, catalog>>

\* ---- list_orders and get_orders_by_user ----
\* page and page_size are 32-bit signed integers; Half is 2^16
Half == 65536
\* a page whose offset leaves the 32-bit range for every page size above 1
BigPage == Half * (Half \div 4) + 1
Pages == {0, 1, 2, 3, BigPage}
PageSizes == {0, 1, 2, 100, 101}

\* let page = if req.page <= 0 { 1 } else { req.page }
EffectivePage(page) == IF page <= 0 THEN 1 ELSE page

\* let page_size = if req.page_size <= 0 || req.page_size > 100 { 10 } else { .. }
EffectivePageSize(page_size) == IF page_size <= 0 \/ page_size > 100 THEN 10 ELSE page_size

\* a * b leaves the range of i32 (0 <= a < 2^31, 1 <= b <= 100)
MulOverflows(a, b) == (a \div Half) * b + ((a % Half) * b) \div Half >= Half \div 2

\* a * b in wrapping 32-bit two's complement arithmetic, by 16-bit halves
WrappingMul(a, b) ==
    LET low == (a % Half) * b
        hi == ((a \div Half) * b + low \div Half) % Half
        lo == low % Half
    IN IF hi >= Half \div 2 THEN (hi - Half) * Half + lo ELSE hi * Half + lo

\* what (page - 1) * page_size can evaluate to: the product; when it overflows,
\* the wrapped value (overflow checks off) or a panic (overflow checks on)
Panic == [panicked |-> TRUE, value |-> 0]
Evaluated(n) == [panicked |-> FALSE, value |-> n]
Offsets(page, page_size) ==
    IF MulOverflows(page - 1, page_size)
    THEN {Evaluated(WrappingMul(page - 1, page_size)), Panic}
    ELSE {Evaluated((page - 1) * page_size)}

RECURSIVE NewestFirst(_)
\* ORDER BY created_at DESC: the ids are generated in the order of creation
NewestFirst(ids) ==
    IF ids = {} THEN << >>
    ELSE LET m == CHOOSE o \in ids : \A o2 \in ids : o2 <= o
         IN <<m>> \o NewestFirst(ids \ {m})

\* LIMIT limit OFFSET offset over the ordered rows (offset >= 0)
LimitOffset(rows, limit, offset) ==
    IF offset >= Len(rows) THEN << >>
    ELSE SubSeq(rows, offset + 1,
                IF limit >= Len(rows) - offset THEN Len(rows) ELSE offset + limit)

\* the rows list_orders selects: all when the request's status is 0, else the
\* rows whose status is the string of the request's status
MatchingStatus(status) ==
    IF status = 0 THEN DOMAIN orders
    ELSE {id \in DOMAIN orders : orders[id].status = status_to_string(status)}

\* the rows get_orders_by_user selects
MatchingUser(user_id) == {id \in DOMAIN orders : orders[id].user_id = user_id}

\* the requests the listing handlers get; with two connections one page of
\* one row, of all orders or of the cancelled ones, or of the registered user
ListStatuses == IF conns = 1 THEN StatusNumbers ELSE {0, status_to_proto(CANCELLED)}
ListPages == IF conns = 1 THEN Pages ELSE {1}
ListPageSizes == IF conns = 1 THEN PageSizes ELSE {1}

\* the response carrying the converted orders of one page and the number of
\* matching rows
Listing(success, message, proto_orders, total_count) ==
    [kind |-> "ok", success |-> success, message |-> message, order |-> NoOrder,
     orders |-> proto_orders, total_count |-> total_count]

\* the page query, a statement on the pool outside any transaction: the
\* matching rows, newest first, LIMIT page_size OFFSET offset, as they are
\* stored when the statement runs; a negative OFFSET is an error of the
\* database, reported as any other
SelectPage(p, matching) ==
    LET me == proc[p]
        ids == LimitOffset(NewestFirst(matching), EffectivePageSize(me.page_size), me.offset)
    IN \/ Fail(p, "Database error")
       \/ /\ me.offset < 0
          /\ Fail(p, "Database error: OFFSET must not be negative")
       \/ /\ me.offset >= 0
          /\ proc' = [proc EXCEPT ![p].pc = "count",
                                  ![p].orders = [k \in 1..Len(ids) |->
                                                   [id |-> ids[k], row |-> orders[ids[k]]]]]
          /\ UNCHANGED <<products, orders, order_items, row_lock, order_lock, tx, ops, conns, restored>>

\* the handler after the rows converted so far: the next conversion, or the
\* response once every row of the page is converted
Converted(me, proto_orders, total_count, suffix) ==
    IF Len(proto_orders) = Len(me.orders)
    THEN Finished(me, Listing(TRUE, <<"Retrieved", Len(proto_orders), suffix>>,
                              proto_orders, total_count))
    ELSE [me EXCEPT !.pc = "convert", !.proto_orders = proto_orders,
                    !.total_count = total_count]

\* the COUNT query, a second statement on the pool: the number of matching
\* rows when it runs; the response follows at once when the page is empty
SelectCount(p, matching, suffix) ==
    LET me == proc[p]
    IN \/ Fail(p, "Database error")
       \/ /\ proc' = [proc EXCEPT ![p] = Converted(me, << >>, Cardinality(matching), suffix)]
          /\ UNCHANGED <<products, orders, order_items, row_lock, order_lock, tx, ops, conns, restored>>

\* db_order_to_proto of the next row of the page: get_order_items SELECTs its
\* item rows and asks the product service for the products
ConvertOrder(p, suffix) ==
    LET me == proc[p]
        next == me.orders[Len(me.proto_orders) + 1]
    IN \/ Fail(p, "Database error")
       \/ \E message \in ProductServiceFaults : Fail(p, message)
       \/ /\ proc' = [proc EXCEPT ![p] =
                 Converted(me, Append(me.proto_orders,
                                      db_order_to_proto(next.id, next.row, order_items[next.id])),
                           me.total_count, suffix)]
          /\ UNCHANGED <<products, orders, order_items, row_lock, order_lock, tx, ops, conns, restored>>

\* lines 598-613: list_orders, the request arrives: page, page_size, offset
ListOrders(p) ==
    /\ Accepts(p)
    /\ ops < Budget
    /\ \E st \in ListStatuses, page \in ListPages, page_size \in ListPageSizes :
         LET me == [IdleProc EXCEPT !.op = "list", !.status = st, !.page = page,
                                    !.page_size = page_size]
         IN \E offset \in Offsets(EffectivePage(page), EffectivePageSize(page_size)) :
              proc' = [proc EXCEPT ![p] =
                         IF offset.panicked THEN Finished(me, Fault("panicked"))
                         ELSE [me EXCEPT !.pc = "page", !.offset = offset.value]]
    /\ ops' = ops + 1
    /\ UNCHANGED <<products, orders, order_items, row_lock, order_lock, tx, conns, restored>>
    /\ UNCHANGED <<rlvars, pipevars, catalog>>

\* lines 615-627 and 636-649: list_orders, the page query
ListOrdersPage(p) ==
    /\ proc[p].op = "list"
    /\ proc[p].pc = "page"
    /\ SelectPage(p, MatchingStatus(proc[p].status))
    /\ UNCHANGED <<rlvars, pipevars, catalog>>

\* lines 629-634 and 651-657: list_orders, the COUNT query
ListOrdersCount(p) ==
    /\ proc[p].op = "list"
    /\ proc[p].pc = "count"
    /\ SelectCount(p, MatchingStatus(proc[p].status), "orders")
    /\ UNCHANGED <<rlvars, pipevars, catalog>>

\* lines 660-670: list_orders, one turn of the conversion loop
ListOrdersConvert(p) ==
    /\ proc[p].op = "list"
    /\ proc[p].pc = "convert"
    /\ ConvertOrder(p, "orders")
    /\ UNCHANGED <<rlvars, pipevars, catalog>>

\* lines 673-695: get_orders_by_user, the request arrives: user_id is
\* validated; page, page_size, offset
GetOrdersByUser(p) ==
    /\ Accepts(p)
    /\ ops < Budget
    /\ \E u \in (IF conns = 1 THEN UserIds ELSE RegisteredUsers), page \in ListPages, page_size \in ListPageSizes :
         LET me == [IdleProc EXCEPT !.op = "by_user", !.user_id = u, !.page = page,
                                    !.page_size = page_size]
         IN IF u = ""
            THEN proc' = [proc EXCEPT ![p] =
                            Finished(me, Listing(FALSE, "User ID is required", << >>, 0))]
            ELSE \E offset \in Offsets(EffectivePage(page), EffectivePageSize(page_size)) :
                   proc' = [proc EXCEPT ![p] =
                              IF offset.panicked THEN Finished(me, Fault("panicked"))
                              ELSE [me EXCEPT !.pc = "page", !.offset = offset.value]]
    /\ ops' = ops + 1
    /\ UNCHANGED <<products, orders, order_items, row_lock, order_lock, tx, conns, restored>>
    /\ UNCHANGED <<rlvars, pipevars, catalog>>

\* lines 697-709: get_orders_by_user, the page query
GetOrdersByUserPage(p) ==
    /\ proc[p].op = "by_user"
    /\ proc[p].pc = "page"
    /\ SelectPage(p, MatchingUser(proc[p].user_id))
    /\ UNCHANGED <<rlvars, pipevars, catalog>>

\* lines 711-715: get_orders_by_user, the COUNT query
GetOrdersByUserCount(p) ==
    /\ proc[p].op = "by_user"
    /\ proc[p].pc = "count"
    /\ SelectCount(p, MatchingUser(proc[p].user_id), "orders for user")
    /\ UNCHANGED <<rlvars, pipevars, catalog>>

\* lines 717-726: get_orders_by_user, one turn of the conversion loop
GetOrdersByUserConvert(p) ==
    /\ proc[p].op = "by_user"
    /\ proc[p].pc = "convert"
    /\ ConvertOrder(p, "orders for user")
    /\ UNCHANGED <<rlvars, pipevars, catalog>>

\* ---- catalog handlers that write the products table (product.rs) ----
\* update_product, lines 117-197: price and stock_quantity are overwritten
UpdateProduct ==
    /\ catalog.pc \notin {"closed", "done"}
    /\ conns = 1 => ops < Budget
    /\ catalog.calls < MaxCatalogOps
    /\ \E id \in ProductIds, price \in Prices \cup {-1}, stock \in {-1, 0, InitStock} :
         /\ row_lock[id] = 0
         /\ products' = IF price >= 0 /\ stock >= 0 /\ id \in DOMAIN products
                        THEN [products EXCEPT ![id] = [price |-> price, stock_quantity |-> stock]]
                        ELSE products
    /\ ops' = ops + 1
    /\ catalog' = [catalog EXCEPT !.calls = @ + 1]
    /\ UNCHANGED <<orders, order_items, row_lock, order_lock, tx, proc, conns, restored>>
    /\ UNCHANGED <<rlvars, pipevars>>

\* delete_product, lines 200-229: DELETE FROM products WHERE id = $1
DeleteProduct ==
    /\ catalog.pc \notin {"closed", "done"}
    /\ conns = 1 => ops < Budget
    /\ catalog.calls < MaxCatalogOps
    /\ \E id \in ProductIds :
         /\ row_lock[id] = 0
         /\ products' = [x \in DOMAIN products \ {id} |-> products[x]]
    /\ ops' = ops + 1
    /\ catalog' = [catalog EXCEPT !.calls = @ + 1]
    /\ UNCHANGED <<orders, order_items, row_lock, order_lock, tx, proc, conns, restored>>
    /\ UNCHANGED <<rlvars, pipevars>>

\* the prices of the requests of add_product: an f64, here its amount in cents
\* or a value Decimal::from_f64_retain has no decimal for (NaN, infinity)
Price(finite, cents) == [finite |-> finite, cents |-> cents]

\* AddProductResponse and UpdateInventoryResponse
Added(success, message, product_id) ==
    [kind |-> "ok", success |-> success, message |-> message, product_id |-> product_id]
Stocked(success, message, new_stock_quantity) ==
    [kind |-> "ok", success |-> success, message |-> message,
     new_stock_quantity |-> new_stock_quantity]

\* the call of the product service returns: the response, the locals are
\* dropped
CatalogFinished(call, resp) ==
    [IdleCatalog EXCEPT !.pc = "done", !.op = call.op, !.resp = resp, !.calls = call.calls]

\* add_product, lines 50-115: the request is validated and the row is
\* inserted under a new uuid
AddProduct ==
    /\ catalog.pc = "idle"
    /\ conns = 1 => ops < Budget
    /\ catalog.calls < MaxCatalogOps
    /\ AddedIds \ DOMAIN products # {}
    /\ \E name \in {"", "N"}, price \in {Price(TRUE, -1), Price(TRUE, 250), Price(FALSE, 0)},
          stock_quantity \in {-1, InitStock} :
         LET req == [name |-> name, price |-> price, stock_quantity |-> stock_quantity]
             me == [IdleCatalog EXCEPT !.op = "add", !.calls = catalog.calls + 1]
             product_id == CHOOSE id \in AddedIds : id \notin DOMAIN products
             rejection == IF req.name = "" THEN "Product name is required"
                          ELSE IF req.price.finite /\ req.price.cents < 0
                               THEN "Price cannot be negative"
                          ELSE IF req.stock_quantity < 0
                               THEN "Stock quantity cannot be negative"
                          ELSE ""
         IN \/ /\ rejection # ""
               /\ catalog' = CatalogFinished(me, Added(FALSE, rejection, ""))
               /\ UNCHANGED products
            \/ /\ rejection = "" /\ ~req.price.finite
               /\ catalog' = CatalogFinished(me, Fault("Invalid price value"))
               /\ UNCHANGED products
            \/ /\ rejection = "" /\ req.price.finite
               /\ catalog' = CatalogFinished(me, Fault("Database error"))
               /\ UNCHANGED products
            \/ /\ rejection = "" /\ req.price.finite
               /\ catalog' = CatalogFinished(me,
                                             Added(TRUE, "Product added successfully",
                                                   product_id))
               /\ products' = [x \in DOMAIN products \cup {product_id} |->
                                 IF x = product_id
                                 THEN [price |-> req.price.cents,
                                       stock_quantity |-> req.stock_quantity]
                                 ELSE products[x]]
    /\ ops' = ops + 1
    /\ UNCHANGED <<orders, order_items, row_lock, order_lock, tx, proc, conns, restored>>
    /\ UNCHANGED <<rlvars, pipevars>>

\* update_inventory, lines 416-429: the request arrives, product_id is validated
UpdateInventory ==
    /\ catalog.pc = "idle"
    /\ conns = 1 => ops < Budget
    /\ catalog.calls < MaxCatalogOps
    /\ \E id \in {""} \cup CatalogIds, change \in {-1, 1} :
         LET me == [IdleCatalog EXCEPT !.op = "inventory", !.product_id = id,
                                       !.quantity_change = change,
                                       !.calls = catalog.calls + 1]
         IN catalog' = IF id = ""
                       THEN CatalogFinished(me, Stocked(FALSE, "Product ID is required", 0))
                       ELSE [me EXCEPT !.pc = "select"]
    /\ ops' = ops + 1
    /\ UNCHANGED <<products, orders, order_items, row_lock, order_lock, tx, proc, conns, restored>>
    /\ UNCHANGED <<rlvars, pipevars>>

\* the transaction of update_inventory ends without a commit
CatalogFail(message) ==
    /\ catalog' = CatalogFinished(catalog, Fault(message))
    /\ row_lock' = Released(row_lock, ProductService)
    /\ UNCHANGED products

\* update_inventory, lines 431-461: begin, SELECT .. FOR UPDATE (it waits for
\* the lock of the row and holds it from then on), the new stock; a missing
\* product takes no lock and is answered after the rollback of lines 450-452
UpdateInventorySelect ==
    /\ catalog.pc = "select"
    /\ LET id == catalog.product_id
           present == id \in DOMAIN products
           stock == IF present THEN products[id].stock_quantity ELSE 0
           new_stock == stock + catalog.quantity_change
       IN \/ CatalogFail("Transaction error")
          \/ CatalogFail("Database error")
          \/ /\ ~present
             /\ CatalogFail("Rollback error")
          \/ /\ ~present
             /\ catalog' = CatalogFinished(catalog, Stocked(FALSE, "Product not found", 0))
             /\ UNCHANGED <<products, row_lock>>
          \/ /\ present /\ row_lock[id] = 0
             /\ catalog' = [catalog EXCEPT !.pc = IF new_stock < 0 THEN "rollback" ELSE "update",
                                           !.stock_quantity = stock,
                                           !.new_stock = new_stock]
             /\ row_lock' = [row_lock EXCEPT ![id] = ProductService]
             /\ UNCHANGED products
    /\ UNCHANGED <<orders, order_items, order_lock, tx, proc, ops, conns, restored>>
    /\ UNCHANGED <<rlvars, pipevars>>

\* update_inventory, lines 463-473: the stock would be negative; the rollback
\* gives the lock of the row back, then the rejection is returned
UpdateInventoryRollback ==
    /\ catalog.pc = "rollback"
    /\ \/ CatalogFail("Rollback error")
       \/ /\ catalog' = CatalogFinished(catalog,
                            Stocked(FALSE, <<"Insufficient stock", catalog.stock_quantity,
                                             catalog.quantity_change>>,
                                    catalog.stock_quantity))
          /\ row_lock' = Released(row_lock, ProductService)
          /\ UNCHANGED products
    /\ UNCHANGED <<orders, order_items, order_lock, tx, proc, ops, conns, restored>>
    /\ UNCHANGED <<rlvars, pipevars>>

\* update_inventory, lines 475-484: UPDATE products SET stock_quantity = $1
\* inside the transaction
UpdateInventoryUpdate ==
    /\ catalog.pc = "update"
    /\ \/ CatalogFail("Database error")
       \/ /\ catalog' = [catalog EXCEPT !.pc = "commit"]
          /\ UNCHANGED <<products, row_lock>>
    /\ UNCHANGED <<orders, order_items, order_lock, tx, proc, ops, conns, restored>>
    /\ UNCHANGED <<rlvars, pipevars>>

\* update_inventory, lines 486-495: commit; the new stock becomes visible
UpdateInventoryCommit ==
    /\ catalog.pc = "commit"
    /\ \/ CatalogFail("Commit error")
       \/ /\ products' = [products EXCEPT ![catalog.product_id].stock_quantity =
                                              catalog.new_stock]
          /\ row_lock' = Released(row_lock, ProductService)
          /\ catalog' = CatalogFinished(catalog,
                            Stocked(TRUE, "Inventory updated successfully",
                                    catalog.new_stock))
    /\ UNCHANGED <<orders, order_items, order_lock, tx, proc, ops, conns, restored>>
    /\ UNCHANGED <<rlvars, pipevars>>

\* the caller has the response of the product service
CatalogReturn ==
    /\ catalog.pc = "done"
    /\ catalog' = [IdleCatalog EXCEPT !.calls = catalog.calls]
    /\ UNCHANGED <<products, orders, order_items, row_lock, order_lock, tx, proc, ops, conns,
                   restored>>
    /\ UNCHANGED <<rlvars, pipevars>>

RLQuiet ==
    /\ PipeQuiet
    /\ max_requests = 0
    /\ window = 0
    /\ clients = << >>
    /\ clock = 0
    /\ calls = [c \in CallIds |-> IdleCall]
    /\ winAllowed = [k \in ClientIds |-> 0]
    /\ winDenied = [k \in ClientIds |-> 0]

\* one connection: the calls run one after the other
Init == OrderInit(1) /\ RLQuiet

\* two connections: the handlers of two calls interleave
ConcInit == OrderInit(2) /\ RLQuiet

OrderNext ==
    \/ \E p \in Procs : CreateOrder(p)
    \/ \E p \in Procs : VerifyUser(p)
    \/ \E p \in Procs : CheckItem(p)
    \/ \E p \in Procs : GetPrice(p)
    \/ \E p \in Procs : CreateBegin(p)
    \/ \E p \in Procs : CreateItem(p)
    \/ \E p \in Procs : CreateCommit(p)
    \/ \E p \in Procs : FetchOrder(p)
    \/ \E p \in Procs : Return(p)
    \/ \E p \in Procs : UpdateOrder(p)
    \/ \E p \in Procs : UpdateOrderExec(p)
    \/ \E p \in Procs : CancelOrder(p)
    \/ \E p \in Procs : CancelRead(p)
    \/ \E p \in Procs : CancelRestore(p)
    \/ \E p \in Procs : CancelSetStatus(p)
    \/ \E p \in Procs : CancelCommit(p)
    \/ \E p \in Procs : GetOrder(p)
    \/ \E p \in Procs : GetOrderFetch(p)

Next == OrderNext

Spec == Init /\ [][Next]_vars

CatalogNext ==
    \/ OrderNext
    \/ UpdateProduct
    \/ DeleteProduct
    \/ AddProduct
    \/ UpdateInventory
    \/ UpdateInventorySelect
    \/ UpdateInventoryRollback
    \/ UpdateInventoryUpdate
    \/ UpdateInventoryCommit
    \/ CatalogReturn

\* n connections, and the product service takes calls that write the catalog
CatalogInit(n) ==
    /\ EmptyStore \/ SeededStore
    /\ Serving(n)
    /\ catalog = IdleCatalog
    /\ RLQuiet

CatalogSpec == CatalogInit(1) /\ [][CatalogNext]_vars

\* two create_order calls interleave with each other and with the catalog calls
ConcCatalogSpec == CatalogInit(2) /\ [][CatalogNext]_vars

ConcSpec == ConcInit /\ [][Next]_vars

\* the order handlers together with the two listing handlers
ListNext ==
    \/ OrderNext
    \/ \E p \in Procs : ListOrders(p)
    \/ \E p \in Procs : ListOrdersPage(p)
    \/ \E p \in Procs : ListOrdersCount(p)
    \/ \E p \in Procs : ListOrdersConvert(p)
    \/ \E p \in Procs : GetOrdersByUser(p)
    \/ \E p \in Procs : GetOrdersByUserPage(p)
    \/ \E p \in Procs : GetOrdersByUserCount(p)
    \/ \E p \in Procs : GetOrdersByUserConvert(p)

ListSpec == Init /\ [][ListNext]_vars

\* the same handlers on two connections: a create, an update or a cancel
\* may commit between the statements of a listing call
ConcListSpec == ConcInit /\ [][ListNext]_vars

RLNext ==
    \/ Tick
    \/ \E c \in CallIds : RLCall(c)
    \/ \E c \in CallIds : RLEntry(c)
    \/ \E c \in CallIds : RLTooManyRequests(c)
    \/ \E c \in CallIds : RLInner(c)

RLSpec == RLInit /\ [][RLNext]_vars

\* the three servers receive calls; the limiter of the user server is
\* configured as in RLSpec
PipeNext ==
    \/ Tick
    \/ \E c \in CallIds : Inbound(c)
    \/ \E c \in CallIds : LoggingServiceCall(c)
    \/ \E c \in CallIds : RateLimitServiceCall(c)
    \/ \E c \in CallIds : RateLimitServiceEntry(c)
    \/ \E c \in CallIds : RateLimitServiceFuture(c)
    \/ \E c \in CallIds : Handler(c)
    \/ \E c \in CallIds : Respond(c)

PipeSpec == RLInit /\ [][PipeNext]_vars
\* ------------------------------------------------------------------------
\* Properties
\* ------------------------------------------------------------------------
\* the handler of p takes a step
Steps(p) == proc'[p] # proc[p]

\* p has returned the response of a call of kind op
Returned(p, op) == proc[p].pc = "done" /\ proc[p].op = op

\* the stored rows nobody may touch when a request is rejected
StoreUnchanged == UNCHANGED <<products, orders, order_items>>

\* C1, state part: the stored total of every order is the sum of its items'
\* price snapshot times quantity, and what get_order returns for an order is
\* the stored total and the stored snapshot of every item.
C1_TotalIsSum ==
    /\ \A id \in DOMAIN orders :
         orders[id].total_amount = SumSubtotals(order_items[id])
    /\ \A p \in Procs :
         (Returned(p, "get") /\ proc[p].resp.success) =>
            LET o == proc[p].resp.order
                rows == order_items[proc[p].order_id]
            IN /\ o.total_amount = orders[proc[p].order_id].total_amount
               /\ Len(o.items) = Len(rows)
               /\ \A k \in 1..Len(rows) :
                    /\ o.items[k].unit_price = rows[k].price
                    /\ o.items[k].quantity = rows[k].quantity

\* C1, step part: no step changes the total or an item of a stored order.
C1_TotalKept ==
    \A id \in DOMAIN orders :
        /\ id \in DOMAIN orders'
        /\ orders'[id].total_amount = orders[id].total_amount
        /\ order_items'[id] = order_items[id]

\* C1: for every created order the total is the sum of unit_price snapshot x
\* quantity, and the total and the snapshots, as stored and as returned by
\* get_order, stay what they were at creation whatever happens later
\* (catalog price changes, update_order, cancel_order, other creations).
C1_TotalFixedAtCreation == [](C1_TotalIsSum) /\ [][C1_TotalKept]_vars

\* C1 witness: get_order has returned an order with an item whose snapshot
\* differs from the product's current catalog price.
C1_Witness ==
    \E p \in Procs :
        /\ Returned(p, "get") /\ proc[p].resp.success
        /\ \E k \in 1..Len(proc[p].resp.order.items) :
              LET it == proc[p].resp.order.items[k]
              IN /\ it.product_id \in DOMAIN products
                 /\ products[it.product_id].price # it.unit_price
                 /\ it.quantity = 2

\* C2: each line item's quantity is added back to the stock at most once per
\* order, whatever sequence of create, update and cancel calls is made.
C2_RestoredOnce ==
    \A id \in DOMAIN orders : \A x \in ProductIds :
        restored[id][x] <= QtyOf(order_items[id], x)

\* C3: of two cancel_order calls on the same order running concurrently, at
\* most one passes the status check and succeeds.
C3_OneCancelSucceeds ==
    \A p \in Procs : \A q \in Procs :
        (p # q /\ Returned(p, "cancel") /\ Returned(q, "cancel")
              /\ proc[p].order_id = proc[q].order_id)
        => ~(proc[p].resp.success /\ proc[q].resp.success)

\* C4: cancel_order reading an order whose status is DELIVERED ends without
\* success, leaves the status DELIVERED and changes no stock.
C4_DeliveredStep ==
    \A p \in Procs :
        (/\ proc[p].pc = "cancel_read"
         /\ Steps(p)
         /\ proc[p].order_id \in DOMAIN orders
         /\ orders[proc[p].order_id].status = DELIVERED)
        => /\ proc'[p].pc = "done"
           /\ ~proc'[p].resp.success
           /\ proc'[p].resp.kind = "ok" =>
                 proc'[p].resp.message \in {"Cannot cancel delivered order",
                                            "Order does not belong to this user"}
           /\ tx'[p] = NoTx
           /\ orders'[proc[p].order_id].status = DELIVERED
           /\ StoreUnchanged

C4_DeliveredNeverCancelled == [][C4_DeliveredStep]_vars

\* C4 witness: a cancel_order call was rejected because the order is delivered.
C4_Witness ==
    \E p \in Procs :
        /\ Returned(p, "cancel")
        /\ proc[p].resp.message = "Cannot cancel delivered order"
        /\ orders[proc[p].order_id].status = DELIVERED
        /\ \E x \in ProductIds : products[x].stock_quantity < InitStock
\* C5, step part: a create_order call that is still validating (verify, the
\* availability check, the price lookup) writes nothing: no row, no stock
\* change, no lock, no transaction.
C5_ValidationStep ==
    \A p \in Procs :
        (proc[p].op = "create" /\ proc[p].pc \in {"verify", "check", "price"} /\ Steps(p))
        => /\ StoreUnchanged
           /\ UNCHANGED <<tx, row_lock, order_lock>>

\* the item create_order is looking at fails: the product service says it is
\* not available in the quantity, or the price lookup finds no product
C5_ItemFails(me) ==
    LET item == me.items[me.i]
    IN IF me.pc = "check"
       THEN item.quantity > 0 /\ ~check_availability(item.product_id, item.quantity)
       ELSE get_product_price(item.product_id) = NoPrice

\* the messages of the two rejections
C5_Rejections == {"Product not available in requested quantity", "Product not found"}

\* C5, abort part: the step of create_order at an item that fails ends the
\* call there: the response has success = false (the rejection of the item,
\* or a fault when the lookup itself failed), no later item is looked at, no
\* order id was generated and no transaction is open.
C5_AbortStep ==
    \A p \in Procs :
        (/\ proc[p].op = "create" /\ proc[p].pc \in {"check", "price"}
         /\ Steps(p) /\ C5_ItemFails(proc[p]))
        => /\ proc'[p].pc = "done"
           /\ ~proc'[p].resp.success
           /\ proc'[p].resp.kind = "ok" =>
                 proc'[p].resp.message = IF proc[p].pc = "check"
                                         THEN "Product not available in requested quantity"
                                         ELSE "Product not found"
           /\ proc'[p].i = proc[p].i
           /\ proc'[p].order_id = 0
           /\ tx'[p] = NoTx

\* C5, state part: the transaction is opened only after every item passed,
\* and a call that was rejected for an item has no transaction, no order id
\* and no lock.
C5_NoTxBeforeValidated ==
    \A p \in Procs :
        /\ (proc[p].op = "create" /\ proc[p].pc \in {"verify", "check", "price", "begin"})
           => tx[p] = NoTx
        /\ (/\ Returned(p, "create") /\ proc[p].resp.kind = "ok"
            /\ proc[p].resp.message \in C5_Rejections)
           => /\ ~proc[p].resp.success
              /\ tx[p] = NoTx
              /\ proc[p].order_id = 0
              /\ \A x \in CatalogIds : row_lock[x] # p
              /\ \A o \in OrderIds : order_lock[o] # p

\* C5: when an item of create_order fails the availability check or has no
\* price, the request ends at that item, before a transaction was opened;
\* nothing was written for it, also not for the items validated before the
\* failing one.
C5_AbortBeforePersistence ==
    [](C5_NoTxBeforeValidated) /\ [][C5_ValidationStep /\ C5_AbortStep]_vars

\* C5 witness: of two create_order calls one was rejected at its second item
\* because the product is not available, after its first item had been
\* validated, and the other because its product has no price (the product was
\* deleted between the availability check and the price lookup); no order is
\* stored and no stock has changed.
C5_Witness ==
    \E p, q \in Procs :
        /\ Returned(p, "create") /\ proc[p].resp.kind = "ok"
        /\ proc[p].resp.message = "Product not available in requested quantity"
        /\ proc[p].i = 2
        /\ Returned(q, "create") /\ proc[q].resp.kind = "ok"
        /\ proc[q].resp.message = "Product not found"
        /\ orders = << >>
        /\ \A x \in DOMAIN products : products[x].stock_quantity = InitStock

\* quantity of product x in the items of all committed orders
RECURSIVE OrderedQty(_, _)
OrderedQty(ids, x) ==
    IF ids = {} THEN 0
    ELSE LET id == CHOOSE o \in ids : TRUE
         IN QtyOf(order_items[id], x) + restored[id][x] * (0 - 1)
            + OrderedQty(ids \ {id}, x)

\* C6, state part: in every committed state an order row is there together
\* with all its item rows and all its stock decrements.
C6_AllPresent ==
    /\ DOMAIN orders = DOMAIN order_items
    /\ \A id \in DOMAIN orders : order_items[id] # << >>
    /\ \A x \in ProductIds :
         products[x].stock_quantity = InitStock - OrderedQty(DOMAIN orders, x)

\* C6, step part: the commit publishes one row per requested item; a failure
\* between begin and commit publishes nothing and ends the transaction.
C6_CommitOrNothing ==
    \A p \in Procs :
        (proc[p].op = "create" /\ proc[p].pc \in {"begin", "item", "commit"} /\ Steps(p))
        => \/ /\ proc[p].pc = "commit" /\ proc'[p].pc = "fetch"
              /\ DOMAIN orders' = DOMAIN orders \cup {proc[p].order_id}
              /\ proc[p].order_id \notin DOMAIN orders
              /\ Len(order_items'[proc[p].order_id]) = Len(proc[p].items)
              /\ \A k \in 1..Len(proc[p].items) :
                    /\ order_items'[proc[p].order_id][k].product_id = proc[p].items[k].product_id
                    /\ order_items'[proc[p].order_id][k].quantity = proc[p].items[k].quantity
              /\ tx'[p] = NoTx
           \/ /\ proc'[p].pc \in {"item", "commit"}
              /\ StoreUnchanged
           \/ /\ proc'[p].pc = "done" /\ proc'[p].resp.kind = "err"
              /\ StoreUnchanged
              /\ tx'[p] = NoTx
              /\ \A x \in ProductIds : row_lock'[x] # p

\* C6: create_order persists all or nothing: the order row, every item row and
\* every stock decrement become visible together at commit, and a database
\* failure at any statement between begin and commit leaves none of them.
C6_AllOrNothing == [](C6_AllPresent) /\ [][C6_CommitOrNothing]_vars

\* C6 witness: a create_order call failed at commit after it had inserted its
\* rows and decremented stock inside the transaction; nothing of it is stored.
C6_Witness ==
    \E p \in Procs :
        /\ Returned(p, "create")
        /\ proc[p].resp.message = "Commit error"
        /\ Len(proc[p].items) = 2
        /\ orders = << >>
        /\ \A x \in ProductIds : products[x].stock_quantity = InitStock

\* C7: the commit of create_order applies the decrement of every item to the
\* stock as it is then, without a second availability check: the stock after
\* is the stock before minus the ordered quantity, below zero or not.
C7_CommitStep ==
    \A p \in Procs :
        (proc[p].op = "create" /\ proc[p].pc = "commit" /\ proc'[p].pc = "fetch")
        => \A x \in ProductIds :
              products'[x].stock_quantity =
                  products[x].stock_quantity - QtyOf(proc[p].items, x)

C7_DecrementUnchecked == [][C7_CommitStep]_vars

\* C7 witness: two concurrent create_order calls of one item each on the same
\* product, each quantity within the initial stock, have both passed the
\* availability check and committed, and the stock is below zero.
C7_Witness ==
    /\ \A p \in Procs :
         /\ Returned(p, "create") /\ proc[p].resp.success
         /\ Len(proc[p].items) = 1
         /\ proc[p].items[1].product_id = "p1"
         /\ proc[p].items[1].quantity <= InitStock
    /\ ops = 2
    /\ products["p1"].stock_quantity < 0
    /\ products["p1"].stock_quantity =
          InitStock - proc[1].items[1].quantity - proc[2].items[1].quantity
\* C8, state part: with max_requests >= 1, since a key's window_start was set
\* no more than max_requests requests were allowed, and a request was denied
\* only after max_requests were allowed: the first max_requests requests of a
\* window are allowed and the next one is denied.
C8_FirstNAllowed ==
    max_requests >= 1 =>
        \A k \in ClientIds :
            /\ winAllowed[k] <= max_requests
            /\ winDenied[k] = 1 => winAllowed[k] = max_requests

\* C8, step part: a request of a known key whose time is more than `window`
\* after window_start is allowed and resets the state to count = 1,
\* window_start = its time; a request within the window does not move
\* window_start.
C8_ResetStep ==
    \A c \in CallIds :
        (/\ max_requests >= 1
         /\ calls[c].pc = "called" /\ calls'[c].pc = "decided"
         /\ calls[c].client_id \in DOMAIN clients)
        => LET k == calls[c].client_id
           IN IF calls[c].now - clients[k].window_start > window
              THEN /\ calls'[c].allowed
                   /\ clients'[k] = ClientState(1, calls[c].now)
              ELSE /\ clients'[k].window_start = clients[k].window_start
                   /\ calls'[c].allowed = (clients[k].count < max_requests)

\* C8: for max_requests = N >= 1 and one key, the first N requests within the
\* window are allowed, the (N+1)-th within the window is denied, and a request
\* later than `window` after window_start is allowed and resets the state.
C8_FixedWindow == [](C8_FirstNAllowed) /\ [][C8_ResetStep]_vars

\* C8 witness: with max_requests = 2 a key had two requests allowed and a third
\* denied in one window, and a later request has reset the window.
C8_Witness ==
    /\ max_requests = 2
    /\ \E k \in DOMAIN clients :
         /\ clients[k].window_start > window
         /\ clients[k].count = 1
         /\ \E c \in CallIds : calls[c].pc = "decided" /\ calls[c].allowed
                               /\ calls[c].client_id = k
                               /\ calls[c].now = clients[k].window_start
    /\ \E k \in ClientIds : winDenied[k] = 1 /\ winAllowed[k] = 2

\* C9: for every max_requests >= 0 the count of every key in the map is at most
\* max_requests, and so is the number of requests allowed in one window.
C9_CountWithinLimit ==
    \A k \in DOMAIN clients :
        /\ clients[k].count <= max_requests
        /\ winAllowed[k] <= max_requests

\* C10: the decision on a key is one indivisible step, so that for any number
\* of concurrent requests no allowed request is lost from the count (count is
\* the number of requests allowed in the window) and the number allowed in one
\* window never exceeds max_requests.
C10_CountIsAllowed ==
    \A k \in DOMAIN clients :
        /\ clients[k].count = winAllowed[k]
        /\ winAllowed[k] <= max_requests

\* C11, state part: a call is answered 429 only when it was denied, and the
\* inner service answered only calls that were allowed.
C11_Terminal ==
    \A c \in CallIds :
        /\ calls[c].response = TOO_MANY_REQUESTS => ~calls[c].allowed
        /\ calls[c].response = InnerResponse => calls[c].allowed

\* C11, step part: the entry step of a denied request leaves the map as it
\* was, and the only step a denied request takes afterwards answers 429 and
\* leaves the map as it was.
C11_DeniedStep ==
    \A c \in CallIds :
        /\ (calls[c].pc = "called" /\ calls'[c].pc = "decided" /\ ~calls'[c].allowed)
              => clients' = clients
        /\ (calls[c].pc = "decided" /\ ~calls[c].allowed /\ calls'[c] # calls[c])
              => /\ calls'[c].pc = "idle"
                 /\ calls'[c].response = TOO_MANY_REQUESTS
                 /\ clients' = clients

\* C11: a denied request is answered with 429 Too Many Requests, the inner
\* service is never called for it, and the count and window_start of its key
\* are left as they were.
C11_DeniedShortCircuits == [](C11_Terminal) /\ [][C11_DeniedStep]_vars

\* C11 witness: with max_requests = 2 a request was answered 429 while the
\* count of its key stands at 2.
C11_Witness ==
    /\ max_requests = 2
    /\ \E c \in CallIds :
         /\ calls[c].pc = "idle"
         /\ calls[c].response = TOO_MANY_REQUESTS
         /\ calls[c].client_id \in DOMAIN clients
         /\ clients[calls[c].client_id].count = 2
         /\ winDenied[calls[c].client_id] = 1

\* C12, step part: the entry step of a request with key k leaves every other
\* key as it was (not created, not removed, not changed), and the request is
\* allowed exactly when k is new, or its time is more than `window` after k's
\* window_start, or fewer than max_requests requests of k were allowed since.
C12_OwnKeyStep ==
    \A c \in CallIds :
        (calls[c].pc = "called" /\ calls'[c].pc = "decided")
        => LET k == calls[c].client_id
           IN /\ DOMAIN clients' = DOMAIN clients \cup {k}
              /\ \A x \in DOMAIN clients \ {k} : clients'[x] = clients[x]
              /\ \A x \in ClientIds \ {k} :
                    winAllowed'[x] = winAllowed[x] /\ winDenied'[x] = winDenied[x]
              /\ calls'[c].allowed =
                    (\/ k \notin DOMAIN clients
                     \/ calls[c].now - clients[k].window_start > window
                     \/ winAllowed[k] < max_requests)

\* C12: admission is independent per key: a request never touches the state
\* of another key, and its outcome follows from the earlier requests of its
\* own key and the clock.
C12_PerKey == [][C12_OwnKeyStep]_vars

\* C12 witness: one key has used up its quota and had a request denied while
\* the other key, inside its own window, still has quota left.
C12_Witness ==
    /\ max_requests = 2
    /\ \E a \in DOMAIN clients : \E b \in DOMAIN clients :
         /\ a # b
         /\ clients[a].count = 2 /\ winDenied[a] = 1
         /\ clients[b].count = 1
         /\ clock - clients[b].window_start <= window

\* C13: CANCELLED and DELIVERED are absorbing: no step of create_order,
\* update_order or cancel_order changes the status of a stored order that is
\* CANCELLED or DELIVERED.
C13_TerminalStep ==
    \A id \in DOMAIN orders :
        orders[id].status \in {CANCELLED, DELIVERED}
        => /\ id \in DOMAIN orders'
           /\ orders'[id].status = orders[id].status

C13_TerminalAbsorbing == [][C13_TerminalStep]_vars

\* C14: the UPDATE of update_order with an empty shipping_address in the
\* request leaves the stored address as it was; with a non-empty one the
\* stored address becomes that value.
C14_AddressStep ==
    \A p \in Procs :
        (proc[p].op = "update" /\ proc[p].pc = "update" /\ proc'[p].pc = "fetch")
        => LET id == proc[p].order_id
           IN orders'[id].shipping_address =
                 IF proc[p].shipping_address = ""
                 THEN orders[id].shipping_address
                 ELSE proc[p].shipping_address

C14_EmptyAddressKept == [][C14_AddressStep]_vars

\* p has returned a page of list_orders or get_orders_by_user
Listed(p, op) == Returned(p, op) /\ proc[p].resp.kind = "ok" /\ proc[p].resp.success

\* C15: list_orders with the unset status value counts and returns the orders
\* of every status, and with the status field set to one of the six statuses
\* (PENDING included) it returns only orders stored with that status.
C15_StatusFilter ==
    \A p \in Procs :
        Listed(p, "list") =>
            /\ proc[p].status = 0 => proc[p].resp.total_count = Cardinality(DOMAIN orders)
            /\ \A s \in Statuses :
                  proc[p].status = status_to_proto(s) =>
                     \A k \in 1..Len(proc[p].resp.orders) :
                         orders[proc[p].resp.orders[k].order_id].status = s

\* the rows a listing call of p is about, by its request
Requested(p) ==
    IF proc[p].op = "list" THEN MatchingStatus(proc[p].status)
    ELSE MatchingUser(proc[p].user_id)

\* p has returned from a listing call whose request was accepted and during
\* which storage and the other services worked
Served(p) ==
    /\ proc[p].pc = "done"
    /\ \/ proc[p].op = "list"
       \/ proc[p].op = "by_user" /\ proc[p].user_id # ""
    /\ ~(/\ proc[p].resp.kind = "err"
         /\ proc[p].resp.message \in {"Database error"} \cup ProductServiceFaults)

\* C16: with no concurrent writes, for every page and page_size of the request
\* list_orders and get_orders_by_user answer with total_count equal to the
\* number of stored orders that match the filter.
C16_TotalCount ==
    \A p \in Procs :
        Served(p) => /\ proc[p].resp.kind = "ok"
                     /\ proc[p].resp.total_count = Cardinality(Requested(p))

\* with concurrent writes (ConcListSpec) the page and the count come from two
\* states of the store: a first page with no order and a total_count of 1
PageAndCountDisagree ==
    \E p \in Procs :
        /\ Listed(p, "list") /\ proc[p].status = 0 /\ proc[p].page = 1
        /\ proc[p].resp.orders = << >>
        /\ proc[p].resp.total_count = 1

\* the ids at positions (page - 1) * page_size onward, at most page_size of
\* them, of the rows sorted by creation time descending
ExpectedPage(ids, page, page_size) ==
    LET rows == NewestFirst(ids)
    IN IF page - 1 >= Len(rows) THEN << >>
       ELSE LET first == (page - 1) * page_size
            IN [k \in 1..(IF Len(rows) - first < 0 THEN 0
                          ELSE IF Len(rows) - first < page_size THEN Len(rows) - first
                          ELSE page_size) |-> rows[first + k]]

\* C17: the orders of a returned page are those of page 1 when page <= 0 and of
\* page_size 10 when page_size <= 0 or page_size > 100, and otherwise the at
\* most page_size orders at positions (page - 1) * page_size onward of the
\* matching orders sorted by creation time descending.
C17_PageContents ==
    \A p \in Procs :
        (Listed(p, "list") \/ Listed(p, "by_user")) =>
            LET page == IF proc[p].page <= 0 THEN 1 ELSE proc[p].page
                page_size == IF proc[p].page_size <= 0 \/ proc[p].page_size > 100
                             THEN 10 ELSE proc[p].page_size
                expected == ExpectedPage(Requested(p), page, page_size)
            IN /\ Len(proc[p].resp.orders) = Len(expected)
               /\ \A k \in 1..Len(expected) :
                     proc[p].resp.orders[k].order_id = expected[k]

\* a create_order request with an empty user_id, no items, or an item whose
\* quantity is not positive
InvalidCreate(me) ==
    /\ me.op = "create"
    /\ \/ me.user_id = ""
       \/ me.items = << >>
       \/ \E k \in 1..Len(me.items) : me.items[k].quantity <= 0

\* C18, state part: such a request never opens a transaction, and its response
\* is a normal one with success = false.
C18_Rejected ==
    \A p \in Procs :
        InvalidCreate(proc[p]) =>
            /\ tx[p] = NoTx
            /\ proc[p].pc \in {"verify", "check", "price", "done"}
            /\ proc[p].pc = "done" =>
                  /\ proc[p].resp.kind = "ok"
                  /\ ~proc[p].resp.success

\* C18, step part: no step of such a request changes an order row, an item row,
\* a product's stock or a lock.
C18_NoEffectStep ==
    \A p \in Procs :
        (InvalidCreate(proc'[p]) /\ Steps(p))
        => /\ StoreUnchanged
           /\ UNCHANGED <<tx, row_lock, order_lock, restored>>

\* C18: create_order with an empty user_id, an empty item list or an item with
\* quantity <= 0 returns a normal response with success = false and has no
\* side effect: no order row, no item row and no stock change results from it.
C18_InvalidRejected == [](C18_Rejected) /\ [][C18_NoEffectStep]_vars

\* C19, step part: the verify step of create_order writes nothing; for a user
\* the user service does not know it ends the call, with the normal response
\* success = false, "User not found", or, when the call to the user service
\* failed, with a fault; it goes on to the items only for a known user.
C19_VerifyStep ==
    \A p \in Procs :
        (proc[p].op = "create" /\ proc[p].pc = "verify" /\ Steps(p))
        => /\ StoreUnchanged
           /\ UNCHANGED <<tx, row_lock, order_lock>>
           /\ tx[p] = NoTx
           /\ proc'[p].pc \in {"check", "done"}
           /\ proc[p].user_id \notin RegisteredUsers => proc'[p].pc = "done"
           /\ proc'[p].pc = "done" =>
                 \/ /\ proc'[p].resp.kind = "err"
                    /\ proc'[p].resp.message \in UserServiceFaults
                 \/ /\ proc'[p].resp.kind = "ok"
                    /\ ~proc'[p].resp.success
                    /\ proc'[p].resp.message = "User not found"
                    /\ proc[p].user_id \notin RegisteredUsers

\* C19: in create_order a negative answer of verify gives the normal response
\* success = false, "User not found"; a failed call to the user service gives
\* a fault; in both cases nothing is persisted.
C19_VerifyOutcomes == [][C19_VerifyStep]_vars

\* C19 witness: of two create_order calls one was answered "User not found"
\* and the other ended with a fault of the user service; nothing is stored.
C19_Witness ==
    /\ \E p \in Procs :
         /\ Returned(p, "create")
         /\ proc[p].resp.kind = "ok" /\ proc[p].resp.message = "User not found"
    /\ \E p \in Procs :
         /\ Returned(p, "create")
         /\ proc[p].resp.kind = "err"
         /\ proc[p].resp.message = "Failed to connect to user service"
    /\ orders = << >>
    /\ \A x \in ProductIds : products[x].stock_quantity = InitStock

\* C20, step part: the read step of cancel_order on a stored order: with a
\* non-empty user_id that is not the owner's the call ends there, success =
\* false, "Order does not belong to this user", and no row, stock or lock is
\* changed; with an empty user_id and a status other than CANCELLED and
\* DELIVERED the call is not rejected, whoever the owner is.
C20_OwnerStep ==
    \A p \in Procs :
        (/\ proc[p].op = "cancel" /\ proc[p].pc = "cancel_read" /\ Steps(p)
         /\ proc[p].order_id \in DOMAIN orders)
        => LET row == orders[proc[p].order_id]
               mine == proc[p].user_id = row.user_id
           IN /\ (proc[p].user_id # "" /\ ~mine)
                   => /\ proc'[p].pc = "done"
                      /\ ~proc'[p].resp.success
                      /\ proc'[p].resp.kind = "ok" =>
                            proc'[p].resp.message = "Order does not belong to this user"
                      /\ StoreUnchanged
                      /\ UNCHANGED <<row_lock, order_lock, restored>>
                      /\ tx'[p] = NoTx
              /\ (proc[p].user_id = "" /\ row.status \notin {CANCELLED, DELIVERED})
                   => \/ proc'[p].pc \in {"cancel_restore", "cancel_status"}
                      \/ proc'[p].pc = "done" /\ proc'[p].resp.kind = "err"

\* C20, state part: "does not belong to this user" is answered only to a
\* non-empty user_id that is not the owner's, and a cancellation succeeds only
\* for the owner's user_id or the empty one.
C20_OwnerChecked ==
    \A p \in Procs :
        (Returned(p, "cancel") /\ proc[p].resp.kind = "ok"
            /\ proc[p].order_id \in DOMAIN orders)
        => LET owner == orders[proc[p].order_id].user_id
           IN /\ proc[p].resp.message = "Order does not belong to this user"
                    => proc[p].user_id \notin {"", owner}
              /\ proc[p].resp.success => proc[p].user_id \in {"", owner}

\* C20: cancel_order with a non-empty user_id other than the owner's answers
\* success = false and leaves the order's status and every stock as they
\* were; with an empty user_id the ownership check is skipped and only the
\* status decides.
C20_Ownership == [](C20_OwnerChecked) /\ [][C20_OwnerStep]_vars

\* C20 witness: a cancel_order of another user was rejected, the order still
\* as stored and its stock not restored, and a cancel_order with an empty
\* user_id of an order owned by u1 has succeeded.
C20_Witness ==
    /\ \E p \in Procs :
         /\ Returned(p, "cancel")
         /\ proc[p].resp.message = "Order does not belong to this user"
         /\ proc[p].user_id = "u2"
    /\ \E p \in Procs :
         /\ Returned(p, "cancel") /\ proc[p].resp.success
         /\ proc[p].user_id = ""
         /\ orders[proc[p].order_id].user_id = "u1"
         /\ orders[proc[p].order_id].status = CANCELLED

\* the order of the cancel_order call of p may be cancelled: it is stored, the
\* user_id of the request is empty or the owner's, and its status is one of
\* PENDING, CONFIRMED, PROCESSING, SHIPPED
Cancellable(p) ==
    /\ proc[p].order_id \in DOMAIN orders
    /\ proc[p].user_id \in {"", orders[proc[p].order_id].user_id}
    /\ orders[proc[p].order_id].status \in {PENDING, CONFIRMED, PROCESSING, SHIPPED}

\* C21, the decision: at its read step a cancel_order call goes on exactly
\* when the order may be cancelled (else it ends with success = false and
\* nothing changed), and only a fault stops a call that went on.
C21_DecisionStep ==
    \A p \in Procs :
        (proc[p].op = "cancel" /\ Steps(p) /\ proc'[p].pc = "done")
        => /\ proc'[p].resp.success => proc[p].pc = "cancel_commit"
           /\ proc[p].pc = "cancel_read" =>
                 /\ proc'[p].resp.kind = "ok" => ~Cancellable(p)
                 /\ StoreUnchanged
           /\ proc[p].pc \in {"cancel_restore", "cancel_status", "cancel_commit"} =>
                 proc'[p].resp.success \/ proc'[p].resp.kind = "err"

\* C21, the effect: the commit step of a cancel_order call sets the status to
\* CANCELLED and adds the quantity of every item to the stock in one step; no
\* other step of the call changes a stored row.
C21_EffectStep ==
    \A p \in Procs :
        (proc[p].op = "cancel" /\ Steps(p))
        => IF proc[p].pc = "cancel_commit" /\ proc'[p].resp.success
           THEN LET id == proc[p].order_id
                IN /\ orders'[id].status = CANCELLED
                   /\ \A o \in DOMAIN orders \ {id} : orders'[o] = orders[o]
                   /\ \A x \in DOMAIN products :
                         products'[x].stock_quantity =
                            products[x].stock_quantity + QtyOf(order_items[id], x)
                   /\ tx'[p] = NoTx
           ELSE /\ StoreUnchanged
                /\ proc[p].pc = "cancel_read" => (proc'[p].pc # "done" <=> Cancellable(p) /\ tx'[p].open)

\* C21: cancel_order succeeds exactly when the order exists, the ownership
\* check passes and the status is PENDING, CONFIRMED, PROCESSING or SHIPPED
\* (and no statement fails); on success the status CANCELLED and the restored
\* stock are committed together.
C21_CancelExactly == [][C21_DecisionStep /\ C21_EffectStep]_vars

\* C21 witness: the second call of a run was a cancel_order that succeeded:
\* the status is CANCELLED and the stock of the product is back at the
\* initial value.
C21_Witness ==
    \E p \in Procs :
        /\ Returned(p, "cancel") /\ proc[p].resp.success
        /\ orders[proc[p].order_id].status = CANCELLED
        /\ restored[proc[p].order_id]["p1"] = 1
        /\ products["p1"].stock_quantity = InitStock
        /\ ops = 2

RECURSIVE QtyOfOrders(_, _)
\* total quantity of product x in the items of the orders ids
QtyOfOrders(ids, x) ==
    IF ids = {} THEN 0
    ELSE LET id == CHOOSE o \in ids : TRUE
         IN QtyOf(order_items[id], x) + QtyOfOrders(ids \ {id}, x)

\* C22, step part: the commit of create_order takes from every product's stock
\* the total quantity of the order's items, the commit of cancel_order adds
\* the total quantity of the same items, which no step in between changes.
C22_InverseStep ==
    \A p \in Procs :
        /\ (proc[p].op = "create" /\ proc[p].pc = "commit" /\ proc'[p].pc = "fetch")
             => \A x \in DOMAIN products :
                   products'[x].stock_quantity =
                      products[x].stock_quantity - QtyOf(order_items'[proc[p].order_id], x)
        /\ (proc[p].op = "cancel" /\ proc[p].pc = "cancel_commit" /\ proc'[p].resp.success)
             => \A x \in DOMAIN products :
                   products'[x].stock_quantity =
                      products[x].stock_quantity + QtyOf(order_items[proc[p].order_id], x)
        /\ \A id \in DOMAIN order_items : order_items'[id] = order_items[id]

\* C22, state part: when the second call of a run is a cancel_order that
\* succeeded, every product's stock is what it was before the order was
\* created: the initial stock less the items of the other stored orders.
C22_RoundTrip ==
    \A p \in Procs :
        (Returned(p, "cancel") /\ proc[p].resp.success /\ ops = 2)
        => \A x \in ProductIds :
              products[x].stock_quantity =
                 InitStock - QtyOfOrders(DOMAIN orders \ {proc[p].order_id}, x)

\* C22: on stock, cancel_order is the exact inverse of create_order: a
\* successful creation followed by a successful cancellation of that order
\* returns every product's stock to its value before the creation, also when
\* a product appears in several items.
C22_CancelInvertsCreate == [](C22_RoundTrip) /\ [][C22_InverseStep]_vars

\* C22 witness: an order with two items of p1 was created from the empty
\* store and then cancelled; the stock of p1 is the initial stock again.
C22_Witness ==
    \E p \in Procs :
        /\ Returned(p, "cancel") /\ proc[p].resp.success /\ ops = 2
        /\ DOMAIN orders = {proc[p].order_id}
        /\ Len(order_items[proc[p].order_id]) = 2
        /\ QtyOf(order_items[proc[p].order_id], "p1") = MaxQty + 1
        /\ products["p1"].stock_quantity = InitStock

\* C23, step part: the commit of create_order stores the order with status
\* PENDING, the requesting user as owner and the sum of price * quantity as
\* total, and takes from each product's stock exactly the quantity ordered
\* of it, nothing from a product that was not ordered.
C23_PersistStep ==
    \A p \in Procs :
        (proc[p].op = "create" /\ proc[p].pc = "commit" /\ proc'[p].pc = "fetch")
        => LET id == proc[p].order_id
           IN /\ id \notin DOMAIN orders
              /\ orders'[id].status = PENDING
              /\ orders'[id].user_id = proc[p].user_id
              /\ orders'[id].total_amount = SumSubtotals(order_items'[id])
              /\ \A k \in 1..Len(proc[p].items) :
                    order_items'[id][k].price = InitPrice(proc[p].items[k].product_id)
              /\ \A x \in ProductIds :
                    IF \E k \in 1..Len(proc[p].items) : proc[p].items[k].product_id = x
                    THEN products[x].stock_quantity - products'[x].stock_quantity
                            = QtyOf(proc[p].items, x)
                    ELSE products'[x] = products[x]

\* C23, response part: a create_order call answers success only after its
\* commit, with the total of the stored order; one item of two p1 at 9.99 is
\* answered with the total 19.98.
C23_Response ==
    \A p \in Procs :
        (Returned(p, "create") /\ proc[p].resp.success)
        => /\ proc[p].order_id \in DOMAIN orders
           /\ orders[proc[p].order_id].user_id = proc[p].user_id
           /\ proc[p].resp.order.user_id = proc[p].user_id
           /\ proc[p].resp.order.total_amount = orders[proc[p].order_id].total_amount
           /\ proc[p].items = <<Item("p1", 2)>> => proc[p].resp.order.total_amount = 1998

\* C23: a successful create_order persists the order as PENDING and owned by
\* the requesting user and decreases the stock of each ordered product by
\* exactly the ordered quantity; no other product's stock changes.
C23_CreatePersists == [](C23_Response) /\ [][C23_PersistStep]_vars

\* C23 witness: the first call of a run, create_order of two p1 for u1, was
\* answered with success, total 19.98 and status PENDING; the stock of p1 is
\* two less than at the start and the stock of p2 is as at the start.
C23_Witness ==
    \E p \in Procs :
        /\ Returned(p, "create") /\ proc[p].resp.success
        /\ ops = 1
        /\ proc[p].items = <<Item("p1", 2)>>
        /\ proc[p].resp.order.total_amount = 1998
        /\ proc[p].resp.order.status = status_to_proto(PENDING)
        /\ orders[proc[p].order_id].status = PENDING
        /\ orders[proc[p].order_id].user_id = "u1"
        /\ \E s \in {InitStock, InitStock - 1} :
              /\ products["p1"].stock_quantity = s - 2
              /\ Cardinality(DOMAIN orders) = 1 + InitStock - s
        /\ products["p2"].stock_quantity = InitStock

\* the call c is inside the logging layer and takes a step
C24_LoggingSteps(c) ==
    \/ rpc[c].pc = "layer" /\ LayerAt(rpc[c]) = LoggingLayer /\ rpc'[c] # rpc[c]
    \/ rpc[c].pc = "ready" /\ LoggingLayer \in {rpc[c].trace[k] : k \in DOMAIN rpc[c].trace}
                           /\ rpc'[c] # rpc[c]

\* C24, step part: a step of the logging layer hands the request it got to
\* the next layer, or hands the result of the next layer to its caller, and
\* changes nothing else but the log: not the limiter, not another call.
C24_SideChannelStep ==
    \A c \in CallIds :
        C24_LoggingSteps(c)
        => /\ rpc'[c].req = rpc[c].req
           /\ rpc'[c].inbound = rpc[c].inbound
           /\ rpc'[c].output = rpc[c].output
           /\ rpc'[c].handled = rpc[c].handled
           /\ rpc'[c].allowed = rpc[c].allowed
           /\ \/ rpc[c].pc = "layer" /\ rpc'[c].pc = "layer" /\ rpc'[c].depth = rpc[c].depth + 1
              \/ rpc[c].pc = "ready" /\ rpc'[c].pc = "done" /\ rpc'[c].response = rpc[c].output
           /\ \A d \in CallIds \ {c} : rpc'[d] = rpc[d]
           /\ UNCHANGED <<rlvars, ordervars>>

\* C24, state part: the layers below the logging layer and the handler get
\* the request as it arrived, and the caller gets the result they produced.
C24_SameOutcome ==
    \A c \in CallIds :
        /\ rpc[c].req = rpc[c].inbound
        /\ rpc[c].pc = "done" => rpc[c].response = rpc[c].output
        /\ rpc[c].pc # "done" => rpc[c].response = NoResult

\* C24: the logging layer is a pure side channel: the result returned to the
\* caller and the calls reaching the inner service are those of the pipeline
\* without the layer.
C24_PureSideChannel == [](C24_SameOutcome) /\ [][C24_SideChannelStep]_vars

\* C24 witness: a call of the user server went through the logging layer,
\* its handler failed, and the caller got that error; both events are logged.
C24_Witness ==
    \E c \in CallIds :
        /\ rpc[c].pc = "done" /\ rpc[c].service = "user"
        /\ rpc[c].handled /\ rpc[c].response = Err
        /\ \E i, j \in DOMAIN log :
              /\ i < j
              /\ log[i].message = "gRPC request started"
              /\ log[j].message = "gRPC request failed"

\* C25: in each of the three servers a call passes the logging layer and then
\* the rate limiter before the business handler: a handler has run only for
\* calls that went through both, in that order, and were allowed.
C25_LayeredEverywhere ==
    \A c \in CallIds :
        rpc[c].handled
        => /\ rpc[c].trace = <<LoggingLayer, RateLimitLayer>>
           /\ rpc[c].allowed

\* C26: whenever create_order returns an error status to the caller, no
\* order row and no item row of that request is stored.
C26_FaultPersistsNothing ==
    \A p \in Procs :
        (Returned(p, "create") /\ proc[p].resp.kind = "err")
        => /\ proc[p].order_id \notin DOMAIN orders
           /\ proc[p].order_id \notin DOMAIN order_items

\* the step of p is a call to the user service (verify), to the product
\* service (check_availability) or the price lookup
C27_PortCallStep(p) ==
    /\ Steps(p)
    /\ \/ proc[p].pc \in {"verify", "price"}
       \/ proc[p].pc = "check" /\ proc[p].items[proc[p].i].quantity > 0

C27_NoPortCallStep ==
    \A p \in Procs : InvalidCreate(proc[p]) => ~C27_PortCallStep(p)

\* C27: create_order rejects a request with an empty user_id, no items or an
\* item with quantity <= 0 before it issues any verify, check_availability or
\* price lookup for that request.
C27_RejectedBeforePorts == [][C27_NoPortCallStep]_vars

\* C28, step part: the UPDATE of update_order on a stored order sets the
\* requested status whatever the current status is and goes on to the
\* success response; on an unknown id it answers "Order not found" and
\* changes nothing. (The other outcome of the step is a database fault.)
C28_UpdateStep ==
    \A p \in Procs :
        (proc[p].op = "update" /\ proc[p].pc = "update" /\ Steps(p))
        => LET id == proc[p].order_id
           IN \/ /\ proc'[p].pc = "done" /\ proc'[p].resp.kind = "err"
                 /\ StoreUnchanged
              \/ /\ id \in DOMAIN orders
                 /\ proc'[p].pc = "fetch"
                 /\ orders'[id].status = status_to_string(proc[p].status)
                 /\ orders'[id].status \in Statuses
              \/ /\ id \notin DOMAIN orders
                 /\ proc'[p].pc = "done" /\ proc'[p].resp.kind = "ok"
                 /\ ~proc'[p].resp.success
                 /\ StoreUnchanged

\* C28, state part: a normal response of update_order has success = false
\* exactly for an empty or unknown order id; a success response carries the
\* requested status, which is the stored one.
C28_UpdateResponse ==
    \A p \in Procs :
        (Returned(p, "update") /\ proc[p].resp.kind = "ok")
        => /\ proc[p].resp.success <=> proc[p].order_id \in DOMAIN orders
           /\ proc[p].resp.success
                 => /\ orders[proc[p].order_id].status = status_to_string(proc[p].status)
                    /\ proc[p].resp.order.status
                          = status_to_proto(status_to_string(proc[p].status))

\* C28: update_order enforces no transition legality: for a stored order and
\* every current and requested status, CANCELLED and DELIVERED included, it
\* answers success and stores the requested status; it answers success =
\* false only for an empty or unknown order id.
C28_NoTransitionCheck == [](C28_UpdateResponse) /\ [][C28_UpdateStep]_vars

\* C28 witness: order 1 was cancelled (its stock was restored) and a later
\* update_order set it to SHIPPED and answered success.
C28_Witness ==
    \E p \in Procs :
        /\ Returned(p, "update") /\ proc[p].resp.success
        /\ restored[proc[p].order_id]["p1"] = 1
        /\ orders[proc[p].order_id].status = SHIPPED
        /\ proc[p].resp.order.status = status_to_proto(SHIPPED)

\* C29: every stored line item has a quantity above zero in every reachable
\* state, and so has every item row an open transaction has inserted.
C29_PositiveQuantities ==
    /\ \A id \in DOMAIN order_items :
          \A k \in 1..Len(order_items[id]) : order_items[id][k].quantity > 0
    /\ \A p \in Procs :
          \A k \in 1..Len(tx[p].items) : tx[p].items[k].quantity > 0

\* C29 witness: an order of two items is stored while another create_order,
\* with an item of quantity 0, was rejected for it.
C29_Witness ==
    \E p, q \in Procs :
        /\ Returned(p, "create") /\ proc[p].resp.success
        /\ Len(order_items[proc[p].order_id]) = 2
        /\ Returned(q, "create")
        /\ proc[q].resp.message = "Invalid quantity for product"
        /\ \E k \in 1..Len(proc[q].items) : proc[q].items[k].quantity = 0

\* C30, step: a request of a known key whose time is exactly `window` after
\* window_start is handled in the old window: window_start stays, it is
\* allowed exactly when count < max_requests and then counted; a request any
\* later than that resets the state to count = 1 at its own time.
C30_BoundaryStep ==
    \A c \in CallIds :
        (/\ calls[c].pc = "called" /\ calls'[c].pc = "decided"
         /\ calls[c].client_id \in DOMAIN clients)
        => LET k == calls[c].client_id
               elapsed == calls[c].now - clients[k].window_start
           IN /\ elapsed = window
                   => /\ clients'[k].window_start = clients[k].window_start
                      /\ calls'[c].allowed <=> clients[k].count < max_requests
                      /\ clients'[k].count =
                            clients[k].count + (IF calls'[c].allowed THEN 1 ELSE 0)
              /\ elapsed > window
                   => /\ clients'[k] = ClientState(1, calls[c].now)
                      /\ calls'[c].allowed

\* C30: the window resets only when strictly more than `window` has elapsed
\* since window_start.
C30_StrictReset == [][C30_BoundaryStep]_vars

\* C30 witness: with a window of at least one tick, the second request of a
\* key came exactly `window` after the first; it was allowed and counted in
\* the window of the first.
C30_Witness ==
    /\ window >= 1
    /\ max_requests = 2
    /\ \E c \in CallIds :
         /\ calls[c].pc = "decided" /\ calls[c].allowed
         /\ calls[c].client_id \in DOMAIN clients
         /\ calls[c].now = clients[calls[c].client_id].window_start + window
         /\ clients[calls[c].client_id].count = 2
         /\ winAllowed[calls[c].client_id] = 2

\* the handler of the allowed request c has not finished
C31_HandlerRunning(c) == calls[c].pc = "decided" /\ calls[c].allowed

\* C31: an allowed request holds the guard of the map only during the entry
\* statement: while its handler has not finished, any other request that has
\* read the clock, for the same key or another one, can take its admission
\* decision at once.
C31_DecisionNeverWaits ==
    \A c \in CallIds :
        C31_HandlerRunning(c)
        => /\ ~calls[c].guard
           /\ \A d \in CallIds \ {c} :
                 calls[d].pc = "called" => ENABLED RLEntry(d)

\* C31 witness: two requests of the same key have both been decided and
\* counted while the handler of an allowed one of them has not finished.
C31_Witness ==
    \E c, d \in CallIds :
        /\ c # d
        /\ C31_HandlerRunning(c)
        /\ calls[d].pc = "decided"
        /\ calls[d].client_id = calls[c].client_id
        /\ clients[calls[c].client_id].count = 2
        /\ winAllowed[calls[c].client_id] = 2

\* C32: the key of a request is its x-forwarded-for value, or "unknown" when
\* it has none; the requests without the header share one entry of the map,
\* so no more than max_requests of them are allowed in one window, and every
\* header value has an entry of its own.
C32_HeaderlessShareQuota ==
    /\ \A c \in CallIds :
          calls[c].pc \in {"called", "decided"}
          => calls[c].client_id =
             IF calls[c].header.present THEN calls[c].header.bytes ELSE UNKNOWN
    /\ DOMAIN clients \subseteq {UNKNOWN} \cup {h.bytes : h \in Headers \ {NoHeader}}
    /\ winAllowed[UNKNOWN] <= max_requests

\* the call c has entered the logging layer
C33_Logged(c) == LoggingLayer \in {rpc[c].trace[k] : k \in DOMAIN rpc[c].trace}

\* the records of the log with one of the messages
C33_Records(messages) == {i \in DOMAIN log : log[i].message \in messages}

\* C33, state part: the log holds one start record per call that entered the
\* logging layer and one completion record per such call that has finished,
\* none for a call that is still pending.
C33_OnePerCall ==
    /\ Cardinality(C33_Records({"gRPC request started"}))
          = Cardinality({c \in CallIds : C33_Logged(c)})
    /\ Cardinality(C33_Records({"gRPC request completed", "gRPC request failed"}))
          = Cardinality({c \in CallIds : C33_Logged(c) /\ rpc[c].pc = "done"})
    /\ Len(log) = Cardinality(C33_Records({"gRPC request started", "gRPC request completed",
                                           "gRPC request failed"}))

\* C33, step part: the start record is written on entry, before the inner
\* call; the completion record is written when the result is ready, at INFO
\* with the response status for a response (also the 429 of the limiter), at
\* ERROR for an error; no other step writes to the log.
C33_RecordStep ==
    \A c \in CallIds :
        rpc'[c] # rpc[c]
        => IF rpc[c].pc = "layer" /\ LayerAt(rpc[c]) = LoggingLayer
           THEN /\ rpc[c].trace = << >> /\ ~rpc[c].handled /\ ~rpc[c].output.ready
                /\ log' = Append(log, log'[Len(log')])
                /\ log'[Len(log')].level = "INFO"
                /\ log'[Len(log')].message = "gRPC request started"
                /\ log'[Len(log')].path = rpc[c].inbound.path
           ELSE IF rpc[c].pc = "ready" /\ C33_Logged(c)
           THEN /\ log' = Append(log, log'[Len(log')])
                /\ log'[Len(log')].path = rpc[c].inbound.path
                /\ IF rpc[c].output.ok
                   THEN /\ log'[Len(log')].level = "INFO"
                        /\ log'[Len(log')].message = "gRPC request completed"
                        /\ log'[Len(log')].status = rpc[c].output.status
                   ELSE /\ log'[Len(log')].level = "ERROR"
                        /\ log'[Len(log')].message = "gRPC request failed"
           ELSE log' = log

\* C33: every call through the logging layer gets one start record on entry
\* and exactly one completion record when it finishes, INFO with the status
\* for a response and ERROR for an error, and none while it is pending.
C33_StartAndCompletion == [](C33_OnePerCall) /\ [][C33_RecordStep]_vars

\* C33 witness: a call of the user server was denied by the limiter; the log
\* has its start record and a completion record at INFO with status 429.
C33_Witness ==
    \E c \in CallIds :
        /\ rpc[c].pc = "done" /\ ~rpc[c].allowed /\ ~rpc[c].handled
        /\ rpc[c].response = Ok(429)
        /\ \E i, j \in DOMAIN log :
              /\ i < j
              /\ log[i].message = "gRPC request started"
              /\ log[j].message = "gRPC request completed"
              /\ log[j].level = "INFO" /\ log[j].status = 429

\* C34: with the calls running one after the other, a create_order that
\* answered success leaves no product with a stock below zero, also when a
\* product appears in several items of the request.
C34_SerialStockNotNegative ==
    \A p \in Procs :
        (Returned(p, "create") /\ proc[p].resp.success)
        => \A x \in DOMAIN products : products[x].stock_quantity >= 0

\* C35: stock conservation: for every product the stored stock plus the
\* quantities of its items in the orders that are not CANCELLED is the
\* initial stock.
C35_StockConserved ==
    \A x \in ProductIds :
        products[x].stock_quantity
          + QtyOfOrders({id \in DOMAIN orders : orders[id].status # CANCELLED}, x)
        = InitStock

\* C36, step: a step of update_order changes no product, no item row and no
\* order but the addressed one, and of that one neither the owner nor the
\* total; for an id that has no row it changes nothing and the response it
\* builds has success = false.
C36_UpdateFrameStep ==
    \A p \in Procs :
        (proc[p].op = "update" /\ Steps(p))
        => LET id == proc[p].order_id
           IN /\ UNCHANGED <<products, order_items, restored>>
              /\ DOMAIN orders' = DOMAIN orders
              /\ \A o \in DOMAIN orders :
                    /\ o # id => orders'[o] = orders[o]
                    /\ orders'[o].user_id = orders[o].user_id
                    /\ orders'[o].total_amount = orders[o].total_amount
              /\ (proc[p].pc = "update" /\ id \notin DOMAIN orders)
                    => /\ StoreUnchanged
                       /\ proc'[p].pc = "done"
                       /\ ~proc'[p].resp.success

\* C36: update_order changes only the status and the shipping address of the
\* addressed order: never a stock (also not when it sets or leaves
\* CANCELLED), a total, an item, an owner or another order.
C36_UpdateFrame == [][C36_UpdateFrameStep]_vars

\* C36 witness: the first call of a run, update_order, set the stored order
\* to CANCELLED and answered success; the stock its item had taken has not
\* come back and the item and the total are as stored.
C36_Witness ==
    \E p \in Procs :
        /\ Returned(p, "update") /\ proc[p].resp.success
        /\ ops = 1
        /\ orders[proc[p].order_id].status = CANCELLED
        /\ orders[proc[p].order_id].total_amount = SeedOrder.total_amount
        /\ order_items[proc[p].order_id] = SeedItems
        /\ products["p1"].stock_quantity = InitStock - 1

RECURSIVE C37_Restored(_, _)
\* quantity of product x given back by the committed cancellations of ids
C37_Restored(ids, x) ==
    IF ids = {} THEN 0
    ELSE LET id == CHOOSE o \in ids : TRUE
         IN restored[id][x] + C37_Restored(ids \ {id}, x)

\* C37, state part: the stock of a product is its initial stock less the
\* quantities of all committed creations plus the quantities of all
\* committed cancellations.
C37_NothingLost ==
    \A x \in ProductIds :
        products[x].stock_quantity =
            InitStock - QtyOfOrders(DOMAIN orders, x) + C37_Restored(OrderIds, x)

\* C37, step part: a commit of create_order or cancel_order changes the stock
\* relative to the value stored at that moment, by the quantities of the
\* order's items, and a cancellation is recorded with just that quantity.
C37_RelativeStep ==
    \A p \in Procs :
        /\ (proc[p].op = "create" /\ proc[p].pc = "commit" /\ proc'[p].pc = "fetch")
             => \A x \in ProductIds :
                   products[x].stock_quantity - products'[x].stock_quantity
                      = QtyOf(proc[p].items, x)
        /\ (/\ proc[p].op = "cancel" /\ proc[p].pc = "cancel_commit"
            /\ proc'[p].pc = "done" /\ proc'[p].resp.success)
             => \A x \in ProductIds :
                   /\ products'[x].stock_quantity - products[x].stock_quantity
                         = QtyOf(order_items[proc[p].order_id], x)
                   /\ restored'[proc[p].order_id][x] - restored[proc[p].order_id][x]
                         = QtyOf(order_items[proc[p].order_id], x)

\* C37: no stock update is lost under concurrency: whatever the interleaving
\* of committed create_order and cancel_order transactions on a product, its
\* stock is the initial stock minus all committed creations plus all
\* committed restores.
C37_NoLostUpdate == [](C37_NothingLost) /\ [][C37_RelativeStep]_vars

\* C37 witness: on two connections a create_order with p1 and a
\* cancel_order of the stored order of p1 have both committed; the stock of
\* p1 reflects both.
C37_Witness ==
    \E p, q \in Procs :
        /\ Returned(p, "create") /\ proc[p].resp.success
        /\ QtyOf(proc[p].items, "p1") = 1
        /\ Returned(q, "cancel") /\ proc[q].resp.success
        /\ restored[proc[q].order_id]["p1"] = 1
        /\ proc[q].order_id # proc[p].order_id
        /\ products["p1"].stock_quantity = InitStock - 1

\* C38, step: a cancel_order that commits with success does not find the
\* order DELIVERED at that moment.
C38_CommitStep ==
    \A p \in Procs :
        (/\ proc[p].op = "cancel" /\ proc[p].pc = "cancel_commit"
         /\ proc'[p].pc = "done" /\ proc'[p].resp.success)
        => orders[proc[p].order_id].status # DELIVERED

\* C38: update_order to DELIVERED running concurrently with cancel_order of
\* the same order behaves as one of the two serial orders: no cancellation
\* commits, sets CANCELLED and restores the stock on an order that is
\* DELIVERED when it commits.
C38_DeliveredNotOverwritten == [][C38_CommitStep]_vars

\* C39: the offset (page - 1) * page_size that list_orders and
\* get_orders_by_user compute in i32 never overflows and is never negative:
\* for every request they have answered the product is within the i32 range.
C39_OffsetInRange ==
    \A p \in Procs :
        (proc[p].pc = "done" /\ proc[p].op \in {"list", "by_user"})
        => LET page == EffectivePage(proc[p].page)
               page_size == EffectivePageSize(proc[p].page_size)
           IN \A offset \in Offsets(page, page_size) :
                 /\ ~MulOverflows(page - 1, page_size)
                 /\ ~offset.panicked
                 /\ offset.value >= 0
====
